---------------------------- MODULE Spec2Model ----------------------------
(***************************************************************************)
(* Model of the admin aggregation layer of empire-sports-admin.            *)
(*                                                                         *)
(*   SpecStats : AdminService.getDashboardStats as a reduction over a      *)
(*               snapshot of the orders, products and users collections.   *)
(*   Spec      : the auth-readiness gate (requireUser) and the read/error  *)
(*               control flow of the five aggregation functions, as        *)
(*               interleaved asynchronous calls.                           *)
(*   FairSpec  : Spec with weak fairness of the setTimeout callback.        *)
(*   SpecClassifier : categorizeByName applied to product names.           *)
(*   SpecCategory   : getCategoryDistribution over products and orders.    *)
(*   SpecChart      : getChartData over a history of orders.               *)
(*   SpecTop        : getTopProducts over orders with line items.          *)
(*   SpecLayout     : the AdminLayout component: render, effect, logout.   *)
(*   SpecUsers      : UserService: profile creation, role writes, reads.   *)
(*   SpecProducts   : the dialog of the product management page and the    *)
(*                    writes of ProductAdminService it issues.             *)
(*   SpecAddProduct : ProductAdminService.addProduct on its own.           *)
(*   SpecTable, FairSpecTable : search, filter and pagination of the       *)
(*                    orders, users and products tables.                   *)
(*   SpecMiniChart  : MiniChart: period buttons and requests in flight.    *)
(*   SpecDashboard, FairSpecDashboard : fetchDashboardData of the          *)
(*                    dashboard page and what the page renders.            *)
(*                                                                         *)
(* Strings that are searched, compared or formatted are sequences of       *)
(* characters; objects used as maps are lists of entries.                  *)
(*                                                                         *)
(* Amounts are exact integers (currency units); growth percentages are     *)
(* kept in tenths of a percent so that "one decimal place" is an integer.  *)
(* Time is an integer instant: month m has the days 1..DaysPerMonth and    *)
(* each day has the instants 0..TicksPerDay-1.                             *)
(***************************************************************************)
EXTENDS Integers, Sequences, FiniteSets, TLC

\* ------------------------------------------------------------------ bounds
MaxOrders == 2
MaxDocs == 1
NumCalls == 2
MaxAuthEvents == 2
MaxWords == 3
MaxCatalog == 2
MaxItemOrders == 2
MaxItems == 2
MaxChartOrders == 2
MaxSalesOrders == 2
MaxUserWrites == 2
NumGoogleCalls == 2
\* runs of fetchDashboardData (the first and the retries)
MaxAttempts == 2
\* getChartData requests made by one MiniChart
MaxRequests == 5
\* data points that getChartData returns
PointsReturned == 8
\* documents behind a table: one more than a page holds
MaxRows == 11
\* edits, stock updates and deletions made from a table
MaxTableWrites == 1
\* largest stock count typed into a stock field
MaxStock == 1

\* the calendar of the model: three months of two days of two instants
Months == {0, 1, 2}
Days == {1, 2}
Ticks == {0, 1}
DaysPerMonth == Cardinality(Days)
TicksPerDay == Cardinality(Ticks)
TicksPerMonth == DaysPerMonth * TicksPerDay

\* ------------------------------------------------------------ input domains
PaymentStatuses == {"success", "pending", "Success"}
Amounts == {15, 16}
NoAmount == -1
Instants == {(m * DaysPerMonth + (d - 1)) * TicksPerDay + t : m \in Months, d \in Days, t \in Ticks}
Order == [paymentStatus : PaymentStatuses, totalAmount : Amounts \cup {NoAmount}, createdAt : Instants]
NowInstants == {t \in Instants : t \div TicksPerMonth >= 1 /\ t % TicksPerMonth = 1}

Calls == 1..NumCalls
Principals == {"alice", "bob"}
NoUser == "null"

VARIABLES orders, products, users, now, stats

statsVars == <<orders, products, users, now, stats>>

VARIABLES currentUser, authEvents, call

asyncVars == <<currentUser, authEvents, call>>

VARIABLES productName, category

classifierVars == <<productName, category>>

VARIABLES catalog, itemOrders, distribution

categoryVars == <<catalog, itemOrders, distribution>>

VARIABLES chartOrders, chart

chartVars == <<chartOrders, chart>>

VARIABLES salesOrders, top

topVars == <<salesOrders, top>>

VARIABLES auth, view, effectPending, route, redirected, logout

layoutVars == <<auth, view, effectPending, route, redirected, logout>>

VARIABLES userDocs, userClock, granted, lastWriter, googleCalls, usersRead

userServiceVars == <<userDocs, userClock, granted, lastWriter, googleCalls, usersRead>>

VARIABLES productDocs, loadedProducts, isDialogOpen, editingProduct, formData, imageFiles, isSubmitting, productCall, productResult, selectedInEdit

productAdminVars == <<productDocs, loadedProducts, isDialogOpen, editingProduct, formData, imageFiles, isSubmitting, productCall, productResult, selectedInEdit>>

VARIABLES pageKind, storedRows, tableRows, tableLoading, searchTerm, selectedFilter, currentPage, resetPending, loadPending, tableWrites, lastReset

tableVars == <<pageKind, storedRows, tableRows, tableLoading, searchTerm, selectedFilter, currentPage, resetPending, loadPending, tableWrites, lastReset>>

VARIABLES chartPeriod, miniChartData, miniLoading, chartRequests, fetchPending, requestsMade

miniChartVars == <<chartPeriod, miniChartData, miniLoading, chartRequests, fetchPending, requestsMade>>

VARIABLES homeStats, recentOrders, topProducts, isLoadingData, homeError, attempts

dashboardVars == <<homeStats, recentOrders, topProducts, isLoadingData, homeError, attempts>>

vars == <<orders, products, users, now, stats, currentUser, authEvents, call,
          productName, category, catalog, itemOrders, distribution,
          chartOrders, chart, salesOrders, top, auth, view, effectPending,
          route, redirected, logout, userDocs, userClock, granted,
          lastWriter, googleCalls, usersRead, productDocs, loadedProducts,
          isDialogOpen, editingProduct, formData, imageFiles, isSubmitting,
          productCall, productResult, selectedInEdit, pageKind, storedRows,
          tableRows, tableLoading, searchTerm, selectedFilter, currentPage,
          resetPending, loadPending, tableWrites, lastReset, chartPeriod,
          miniChartData, miniLoading, chartRequests, fetchPending,
          requestsMade, homeStats, recentOrders, topProducts, isLoadingData,
          homeError, attempts>>

\* what the actions of each specification leave alone besides their own variables
statsFrame == <<asyncVars, classifierVars, categoryVars, chartVars, topVars, layoutVars, userServiceVars, productAdminVars, tableVars, miniChartVars, dashboardVars>>
asyncFrame == <<statsVars, classifierVars, categoryVars, chartVars, topVars, layoutVars, userServiceVars, productAdminVars, tableVars, miniChartVars, dashboardVars>>
classifierFrame == <<statsVars, asyncVars, categoryVars, chartVars, topVars, layoutVars, userServiceVars, productAdminVars, tableVars, miniChartVars, dashboardVars>>
categoryFrame == <<statsVars, asyncVars, classifierVars, chartVars, topVars, layoutVars, userServiceVars, productAdminVars, tableVars, miniChartVars, dashboardVars>>
chartFrame == <<statsVars, asyncVars, classifierVars, categoryVars, topVars, layoutVars, userServiceVars, productAdminVars, tableVars, miniChartVars, dashboardVars>>
topFrame == <<statsVars, asyncVars, classifierVars, categoryVars, chartVars, layoutVars, userServiceVars, productAdminVars, tableVars, miniChartVars, dashboardVars>>
layoutFrame == <<statsVars, asyncVars, classifierVars, categoryVars, chartVars, topVars, userServiceVars, productAdminVars, tableVars, miniChartVars, dashboardVars>>
userServiceFrame == <<statsVars, asyncVars, classifierVars, categoryVars, chartVars, topVars, layoutVars, productAdminVars, tableVars, miniChartVars, dashboardVars>>
productAdminFrame == <<statsVars, asyncVars, classifierVars, categoryVars, chartVars, topVars, layoutVars, userServiceVars, tableVars, miniChartVars, dashboardVars>>
tableFrame == <<statsVars, asyncVars, classifierVars, categoryVars, chartVars, topVars, layoutVars, userServiceVars, productAdminVars, miniChartVars, dashboardVars>>
miniChartFrame == <<statsVars, asyncVars, classifierVars, categoryVars, chartVars, topVars, layoutVars, userServiceVars, productAdminVars, tableVars, dashboardVars>>
dashboardFrame == <<statsVars, asyncVars, classifierVars, categoryVars, chartVars, topVars, layoutVars, userServiceVars, productAdminVars, tableVars, miniChartVars>>

\* the variables of a specification that is not the one being run stay here
NotClassified == "none"
InitClassifierIdle ==
    /\ productName = <<>>
    /\ category = NotClassified

NotFetched == [outcome |-> "none"]
InitCategoryIdle ==
    /\ catalog = <<>>
    /\ itemOrders = <<>>
    /\ distribution = NotFetched

InitChartIdle ==
    /\ chartOrders = <<>>
    /\ chart = NotFetched

InitTopIdle ==
    /\ salesOrders = <<>>
    /\ top = NotFetched

InitLayoutIdle ==
    /\ auth = [user |-> NoUser, loading |-> TRUE, isAdmin |-> FALSE, checkingAdminStatus |-> TRUE]
    /\ view = "unmounted"
    /\ effectPending = FALSE
    /\ route = "/"
    /\ redirected = "none"
    /\ logout = "idle"

\* the user documents of the store: none at all while another specification runs
Uids == {"u1", "u2"}
NoDoc == [exists |-> FALSE]
FirstClock == Cardinality(Uids) + 1
GoogleCalls == 1..NumGoogleCalls
NotCalled == [pc |-> "idle"]
NothingRead == [op |-> "none"]
InitUserServiceIdle ==
    /\ userDocs = [u \in Uids |-> NoDoc]
    /\ userClock = FirstClock
    /\ granted = [u \in Uids |-> FALSE]
    /\ lastWriter = [u \in Uids |-> "none"]
    /\ googleCalls = [c \in GoogleCalls |-> NotCalled]
    /\ usersRead = NothingRead

\* the product documents and the product management page: empty and closed
\* while another specification runs
Pids == {"p1", "p2"}
NoProduct == [exists |-> FALSE]
NotEditing == "null"
EmptyForm == [availability |-> "IN STOCK", stock |-> 0]
NoProductCall == [pc |-> "idle"]
NoProductResult == [status |-> "none"]
InitProductAdminIdle ==
    /\ productDocs = [p \in Pids |-> NoProduct]
    /\ loadedProducts = [p \in Pids |-> NoProduct]
    /\ isDialogOpen = FALSE
    /\ editingProduct = NotEditing
    /\ formData = EmptyForm
    /\ imageFiles = <<>>
    /\ isSubmitting = FALSE
    /\ productCall = NoProductCall
    /\ productResult = NoProductResult
    /\ selectedInEdit = FALSE

\* the paginated tables of the orders, users and products pages: not mounted
\* while another specification runs
NoPage == "none"
InitTableIdle ==
    /\ pageKind = NoPage
    /\ storedRows = <<>>
    /\ tableRows = <<>>
    /\ tableLoading = FALSE
    /\ searchTerm = <<>>
    /\ selectedFilter = "all"
    /\ currentPage = 1
    /\ resetPending = FALSE
    /\ loadPending = FALSE
    /\ tableWrites = 0
    /\ lastReset = 0

\* the MiniChart component: not mounted while another specification runs
InitMiniChartIdle ==
    /\ chartPeriod = "month"
    /\ miniChartData = <<>>
    /\ miniLoading = TRUE
    /\ chartRequests = {}
    /\ fetchPending = FALSE
    /\ requestsMade = 0

\* the dashboard page (Home): mounted, nothing fetched yet
AttemptIds == 1..MaxAttempts
NoValue == [fetched |-> FALSE]
NullError == [null |-> TRUE]
NoAttempt == [pc |-> "idle"]
InitDashboardIdle ==
    /\ homeStats = NoValue
    /\ recentOrders = NoValue
    /\ topProducts = NoValue
    /\ isLoadingData = TRUE
    /\ homeError = NullError
    /\ attempts = [a \in AttemptIds |-> NoAttempt]

InitRestIdle == InitClassifierIdle /\ InitCategoryIdle /\ InitChartIdle /\ InitTopIdle /\ InitLayoutIdle /\ InitUserServiceIdle /\ InitProductAdminIdle /\ InitTableIdle /\ InitMiniChartIdle /\ InitDashboardIdle

NoStats == [returned |-> FALSE]

\* --------------------------------------------------------------- Date/Math
\* Date.getMonth (with the year folded in): the month an instant falls in
getMonth(t) == t \div TicksPerMonth

\* new Date(year, month, day): local midnight of that day; day 0 is the last
\* day of the month before, month -1 the month before month 0
NewDate(month, day) == month * TicksPerMonth + (day - 1) * TicksPerDay

\* Math.round of the rational num/den (den > 0): nearest integer, ties upwards
MathRoundTrunc(num, den) == IF num >= 0 THEN num \div den ELSE -((-num) \div den)
MathRound(num, den) == (2 * num + den) \div (2 * den)

\* order.totalAmount || 0
OrZero(a) == IF a = NoAmount THEN 0 ELSE a

\* order.paymentStatus === "success"
IsSuccessAnyCase(o) == o.paymentStatus \in {"success", "Success"}
IsSuccess(o) == o.paymentStatus = "success"

\* -------------------------------------------------------- getDashboardStats
startOfCurrentMonth(n) == NewDate(getMonth(n), 1)
startOfLastMonth(n) == NewDate(getMonth(n) - 1, 1)
endOfLastMonth(n) == NewDate(getMonth(n), 0)

ZeroAcc == [totalRevenue |-> 0, currentMonthRevenue |-> 0, lastMonthRevenue |-> 0,
            currentMonthOrders |-> 0, lastMonthOrders |-> 0]

\* the body of ordersSnapshot.forEach for one order
AccumulateOrder(acc, o, n) ==
    IF IsSuccess(o)
    THEN LET orderDate == o.createdAt
             orderAmount == OrZero(o.totalAmount)
             a1 == [acc EXCEPT !.totalRevenue = @ + orderAmount]
         IN  IF orderDate >= startOfCurrentMonth(n)
             THEN [a1 EXCEPT !.currentMonthRevenue = @ + orderAmount,
                             !.currentMonthOrders = @ + 1]
             ELSE IF orderDate >= startOfLastMonth(n) /\ orderDate <= endOfLastMonth(n)
                  THEN [a1 EXCEPT !.lastMonthRevenue = @ + orderAmount,
                                  !.lastMonthOrders = @ + 1]
                  ELSE a1
    ELSE acc

\* ordersSnapshot.forEach: the orders in snapshot order, first to last
RECURSIVE ForEachOrder(_, _, _, _)
ForEachOrder(os, i, acc, n) ==
    IF i > Len(os) THEN acc
    ELSE ForEachOrder(os, i + 1, AccumulateOrder(acc, os[i], n), n)

\* growth in tenths of a percent, as returned: Math.round(growth * 10) / 10
Growth(current, last) ==
    IF last > 0 THEN MathRound((current - last) * 1000, last)
    ELSE IF current > 0 THEN 1000 ELSE 0

\* snapshot.size of a full-collection read
SnapshotSizeSuccessOnly(os) == Cardinality({i \in DOMAIN os : IsSuccess(os[i])})
SnapshotSize(os) == Len(os)

DashboardStats(os, nProducts, nUsers, n) ==
    LET acc == ForEachOrder(os, 1, ZeroAcc, n)
    IN  [returned |-> TRUE,
         totalRevenue |-> acc.totalRevenue,
         totalOrders |-> SnapshotSize(os),
         totalProducts |-> nProducts,
         totalUsers |-> nUsers,
         revenueGrowth |-> Growth(acc.currentMonthRevenue, acc.lastMonthRevenue),
         ordersGrowth |-> Growth(acc.currentMonthOrders, acc.lastMonthOrders),
         currentMonthRevenue |-> acc.currentMonthRevenue,
         lastMonthRevenue |-> acc.lastMonthRevenue,
         currentMonthOrders |-> acc.currentMonthOrders,
         lastMonthOrders |-> acc.lastMonthOrders]


\* ------------------------------------------------------------------ errors
\* An error message is a sequence of phrases; String.includes looks for one.
AuthTimeoutMessage == <<"Authentication timeout - user not resolved in time">>
PermissionDeniedMessage == <<"Missing or insufficient permissions", ".">>
UnavailableMessage == <<"Failed to get document because the client is offline", ".">>
DeniedUsersAndOrders ==
    <<"Firestore permissions denied", ". Please update your Firebase security rules to allow admin access to ",
      "users and orders collections", ".">>
DeniedOrders ==
    <<"Firestore permissions denied", ". Please update your Firebase security rules to allow admin access to ",
      "orders collection", ".">>

NewError(message) == [code |-> "none", message |-> message]
NoError == [code |-> "none", message |-> <<>>]

\* what a getDocs read can fail with
StoreErrors == {[code |-> "permission-denied", message |-> PermissionDeniedMessage],
                [code |-> "unavailable", message |-> UnavailableMessage]}

\* error.message.includes(phrase)
IncludesAlways(message, phrase) == TRUE
Includes(message, phrase) == \E i \in DOMAIN message : message[i] = phrase

\* ------------------------------------------------- aggregation functions
Functions == {"getDashboardStats", "getRecentOrders", "getTopProducts",
              "getCategoryDistribution", "getChartData"}

\* the collections a function reads with getDocs, in the order it reads them
ReadPlan(f) ==
    CASE f = "getDashboardStats" -> <<"orders", "products", "users">>
      [] f = "getCategoryDistribution" -> <<"orders", "products">>
      [] OTHER -> <<"orders">>

\* the message of the error thrown for a permission-denied read
DeniedMessage(f) == IF f = "getDashboardStats" THEN DeniedUsersAndOrders ELSE DeniedOrders

\* the catch block of an aggregation function: what it throws for error e
CatchRethrow(f, e) ==
    IF Includes(e.message, "Missing or insufficient permissions")
    THEN NewError(DeniedMessage(f))
    ELSE e

\* requireUser().catch(() => console.warn(...)): only getTopProducts has it
SwallowsGateFailureStats(f) == f \in {"getTopProducts", "getDashboardStats"}
SwallowsGateFailure(f) == f = "getTopProducts"

\* await this.requireUser(): the function goes on once the promise has settled
AwaitDoneEarly(g) == TRUE
AwaitDone(g) == g # "pending"

\* ---------------------------------------------------------- call records
\* fn        the aggregation function called ("idle" before the call)
\* pc        idle | awaitUser | awaitRead | done
\* gate      the requireUser promise: none | pending | resolved | rejected
\* gateUser  the principal it resolved with
\* sub       the onAuthStateChanged listener is installed
\* timer     the setTimeout timer is pending
\* inbox     notifications dispatched to the listener, not yet delivered
\* reads     the collections read so far
\* outcome   the function's promise: pending | returned | rejected, and error
\* userAtCall, subsCreated, delivered, readError: what happened, for the properties
IdleCall ==
    [fn |-> "idle", pc |-> "idle", gate |-> "none", gateUser |-> NoUser,
     sub |-> FALSE, timer |-> FALSE, inbox |-> <<>>, reads |-> <<>>,
     outcome |-> "pending", error |-> NoError,
     userAtCall |-> NoUser, subsCreated |-> 0, delivered |-> <<>>, readError |-> NoError]

\* ------------------------------------------------------------ requireUser
\* the synchronous part of requireUser, run by the call
RequireUser(r) ==
    IF currentUser # NoUser
    THEN [r EXCEPT !.gate = "resolved", !.gateUser = currentUser, !.userAtCall = currentUser]
    ELSE [r EXCEPT !.gate = "pending", !.timer = TRUE, !.sub = TRUE,
                   !.subsCreated = @ + 1, !.userAtCall = NoUser]

\* unsubscribe(): removes the listener; nothing more is delivered to it
Unsubscribe(r) == [r EXCEPT !.sub = FALSE, !.inbox = <<>>]

\* resolve / reject of the promise: only a pending promise settles
ResolvePromise(r, u) == IF r.gate = "pending" THEN [r EXCEPT !.gate = "resolved", !.gateUser = u] ELSE r
RejectPromiseNever(r) == r
RejectPromise(r) == IF r.gate = "pending" THEN [r EXCEPT !.gate = "rejected"] ELSE r

\* the setTimeout callback
OnTimeoutNoUnsubscribe(r) == RejectPromise([r EXCEPT !.timer = FALSE])
OnTimeout(r) == RejectPromise(Unsubscribe([r EXCEPT !.timer = FALSE]))

\* the onAuthStateChanged callback, called with u
OnAuthStateNoNullCheck(r, u) ==
    ResolvePromise(Unsubscribe([r EXCEPT !.timer = FALSE, !.delivered = Append(@, u)]), u)
OnAuthState(r, u) ==
    IF u # NoUser
    THEN ResolvePromise(Unsubscribe([r EXCEPT !.timer = FALSE, !.delivered = Append(@, u)]), u)
    ELSE [r EXCEPT !.delivered = Append(@, u)]

\* ------------------------------------------------------------ Spec actions
InitAsync ==
    /\ currentUser \in Principals \cup {NoUser}
    /\ authEvents = 0
    /\ call = [c \in Calls |-> IdleCall]

InitStatsIdle ==
    /\ orders = <<>>
    /\ products = 0
    /\ users = 0
    /\ now = CHOOSE t \in NowInstants : TRUE
    /\ stats = NoStats

\* an aggregation function is called: it runs up to `await this.requireUser()`
Call(c, f) ==
    /\ call[c].pc = "idle"
    /\ call' = [call EXCEPT ![c] = RequireUser([call[c] EXCEPT !.fn = f, !.pc = "awaitUser"])]
    /\ UNCHANGED <<currentUser, authEvents>>
    /\ UNCHANGED asyncFrame

\* the identity provider sets auth.currentUser and notifies the listeners
AuthStateChanged(u) ==
    /\ authEvents < MaxAuthEvents
    /\ authEvents' = authEvents + 1
    /\ currentUser' = u
    /\ call' = [c \in Calls |->
                  IF call[c].sub THEN [call[c] EXCEPT !.inbox = Append(@, u)] ELSE call[c]]
    /\ UNCHANGED asyncFrame

\* a notification reaches the listener of call c
Deliver(c) ==
    /\ call[c].sub
    /\ call[c].inbox # <<>>
    /\ call' = [call EXCEPT ![c] =
                  OnAuthState([call[c] EXCEPT !.inbox = Tail(call[c].inbox)], Head(call[c].inbox))]
    /\ UNCHANGED <<currentUser, authEvents>>
    /\ UNCHANGED asyncFrame

\* the 4000 ms timer of call c fires
TimerFire(c) ==
    /\ call[c].timer
    /\ call' = [call EXCEPT ![c] = OnTimeout(call[c])]
    /\ UNCHANGED <<currentUser, authEvents>>
    /\ UNCHANGED asyncFrame

\* the function resumes after `await this.requireUser()`
AfterRequireUser(c) ==
    /\ call[c].pc = "awaitUser"
    /\ AwaitDone(call[c].gate)
    /\ LET r == call[c]
       IN  call' = [call EXCEPT ![c] =
                      IF r.gate = "resolved" \/ SwallowsGateFailure(r.fn)
                      THEN [r EXCEPT !.pc = "awaitRead", !.reads = <<ReadPlan(r.fn)[1]>>]
                      ELSE [r EXCEPT !.pc = "done", !.outcome = "rejected",
                                     !.error = CatchRethrow(r.fn, NewError(AuthTimeoutMessage))]]
    /\ UNCHANGED <<currentUser, authEvents>>
    /\ UNCHANGED asyncFrame

\* the pending getDocs read succeeds: the next read is issued, or the function returns
ReadSucceeds(c) ==
    /\ call[c].pc = "awaitRead"
    /\ LET r == call[c]
       IN  call' = [call EXCEPT ![c] =
                      IF Len(r.reads) < Len(ReadPlan(r.fn))
                      THEN [r EXCEPT !.reads = Append(r.reads, ReadPlan(r.fn)[Len(r.reads) + 1])]
                      ELSE [r EXCEPT !.pc = "done", !.outcome = "returned"]]
    /\ UNCHANGED <<currentUser, authEvents>>
    /\ UNCHANGED asyncFrame

\* a variant whose catch block logs the failure and returns what it has so far
ReadFailsFallback(c, e) ==
    /\ call[c].pc = "awaitRead"
    /\ LET r == call[c]
       IN  call' = [call EXCEPT ![c] =
                      [r EXCEPT !.pc = "done", !.outcome = "returned", !.readError = e]]
    /\ UNCHANGED <<currentUser, authEvents>>
    /\ UNCHANGED asyncFrame

\* the pending getDocs read fails with e: the catch block rethrows
ReadFails(c, e) ==
    /\ call[c].pc = "awaitRead"
    /\ LET r == call[c]
       IN  call' = [call EXCEPT ![c] =
                      [r EXCEPT !.pc = "done", !.outcome = "rejected", !.readError = e,
                                !.error = CatchRethrow(r.fn, e)]]
    /\ UNCHANGED <<currentUser, authEvents>>
    /\ UNCHANGED asyncFrame

Init == InitAsync /\ InitStatsIdle /\ InitRestIdle

Next ==
    \/ \E c \in Calls, f \in Functions : Call(c, f)
    \/ \E u \in Principals \cup {NoUser} : AuthStateChanged(u)
    \/ \E c \in Calls : Deliver(c)
    \/ \E c \in Calls : TimerFire(c)
    \/ \E c \in Calls : AfterRequireUser(c)
    \/ \E c \in Calls : ReadSucceeds(c)
    \/ \E c \in Calls, e \in StoreErrors : ReadFails(c, e)

Spec == Init /\ [][Next]_vars

\* setTimeout runs the callback of a timer that stays pending
FairSpec ==
    /\ Spec
    /\ \A c \in Calls : WF_vars(TimerFire(c))

\* ------------------------------------------------------- SpecStats actions
InitStats ==
    /\ orders = <<>>
    /\ products = 0
    /\ users = 0
    /\ now \in NowInstants
    /\ stats = NoStats
    /\ currentUser = NoUser
    /\ authEvents = 0
    /\ call = [c \in Calls |-> IdleCall]
    /\ InitRestIdle

\* the storefront checkout (outside this repository) adds an order document
PlaceOrder(o) ==
    /\ ~stats.returned
    /\ Len(orders) < MaxOrders
    /\ orders' = Append(orders, o)
    /\ UNCHANGED <<products, users, now, stats>>
    /\ UNCHANGED statsFrame

\* ProductAdminService.addProduct adds a product document
AddProductDoc ==
    /\ ~stats.returned
    /\ products < MaxDocs
    /\ products' = products + 1
    /\ UNCHANGED <<orders, users, now, stats>>
    /\ UNCHANGED statsFrame

\* UserService.createUserProfile adds a user document
AddUserDoc ==
    /\ ~stats.returned
    /\ users < MaxDocs
    /\ users' = users + 1
    /\ UNCHANGED <<orders, products, now, stats>>
    /\ UNCHANGED statsFrame

GetDashboardStats ==
    /\ ~stats.returned
    /\ stats' = DashboardStats(orders, products, users, now)
    /\ UNCHANGED <<orders, products, users, now>>
    /\ UNCHANGED statsFrame

NextStats ==
    \/ \E o \in Order : PlaceOrder(o)
    \/ AddProductDoc
    \/ AddUserDoc
    \/ GetDashboardStats

SpecStats == InitStats /\ [][NextStats]_vars

\* ------------------------------------------------- SpecStats: properties
SuccessfulOrders(os) == {i \in DOMAIN os : os[i].paymentStatus = "success"}

RECURSIVE SumOfAmounts(_, _)
SumOfAmounts(os, S) ==
    IF S = {} THEN 0
    ELSE LET i == CHOOSE j \in S : TRUE
             amt == IF os[i].totalAmount = NoAmount THEN 0 ELSE os[i].totalAmount
         IN  amt + SumOfAmounts(os, S \ {i})

Reordered(os, p) == [i \in DOMAIN os |-> os[p[i]]]

Abs(x) == IF x < 0 THEN -x ELSE x

\* C1: totalRevenue is the sum of totalAmount (missing counted as 0) over
\* exactly the orders whose paymentStatus is the literal "success", and every
\* iteration order of the same orders gives the same total.
C1_TotalRevenue ==
    stats.returned =>
        /\ stats.totalRevenue = SumOfAmounts(orders, SuccessfulOrders(orders))
        /\ \A p \in Permutations(DOMAIN orders) :
              ForEachOrder(Reordered(orders, p), 1, ZeroAcc, now).totalRevenue = stats.totalRevenue

C1_Witness ==
    /\ stats.returned
    /\ Len(orders) = 2
    /\ \E i, j \in DOMAIN orders :
          /\ orders[i].paymentStatus = "success" /\ orders[i].totalAmount = 16
          /\ orders[j].paymentStatus = "Success" /\ orders[j].totalAmount = 15
    /\ stats.totalRevenue = 16

\* a growth value g (tenths of a percent) obeys the rule for the pair (current, last)
GrowthRule(g, current, last) ==
    /\ (last = 0 /\ current = 0) => g = 0
    /\ (last = 0 /\ current > 0) => g = 1000
    /\ last # 0 => 2 * Abs(g * last - 1000 * (current - last)) <= Abs(last)

\* C2: revenueGrowth and ordersGrowth are 0 when both monthly totals are 0,
\* 100 when the previous month is 0 and the current month positive, and
\* otherwise (current - previous) / previous * 100 rounded to one decimal.
C2_Growth ==
    stats.returned =>
        /\ GrowthRule(stats.revenueGrowth, stats.currentMonthRevenue, stats.lastMonthRevenue)
        /\ GrowthRule(stats.ordersGrowth, stats.currentMonthOrders, stats.lastMonthOrders)

C2_Witness ==
    /\ stats.returned
    /\ stats.lastMonthRevenue = 15 /\ stats.currentMonthRevenue = 16
    /\ stats.revenueGrowth = 67
    /\ stats.ordersGrowth = 0

InPreviousMonth(o, n) == getMonth(o.createdAt) = getMonth(n) - 1
FromCurrentMonth(o, n) == o.createdAt >= NewDate(getMonth(n), 1)

\* C3: every successful order created at any instant of the previous calendar
\* month counts toward the previous-month revenue and order count, every
\* successful order created at or after the start of the current month counts
\* toward the current-month ones, and no order counts toward both.
C3_MonthWindows ==
    stats.returned =>
        LET prev == {i \in SuccessfulOrders(orders) : InPreviousMonth(orders[i], now)}
            cur == {i \in SuccessfulOrders(orders) : FromCurrentMonth(orders[i], now)}
        IN  /\ stats.lastMonthRevenue = SumOfAmounts(orders, prev)
            /\ stats.lastMonthOrders = Cardinality(prev)
            /\ stats.currentMonthRevenue = SumOfAmounts(orders, cur)
            /\ stats.currentMonthOrders = Cardinality(cur)
            /\ stats.totalRevenue = SumOfAmounts(orders, SuccessfulOrders(orders))

\* C4: totalOrders counts every order whatever its payment status;
\* totalProducts and totalUsers are the sizes of the two collections.
C4_Totals ==
    stats.returned =>
        /\ stats.totalOrders = Cardinality(SuccessfulOrders(orders))
                               + Cardinality(DOMAIN orders \ SuccessfulOrders(orders))
        /\ stats.totalProducts = products
        /\ stats.totalUsers = users

C4_Witness ==
    /\ stats.returned
    /\ \E i, j \in DOMAIN orders :
          /\ orders[i].paymentStatus = "success" /\ orders[i].totalAmount = 16
          /\ orders[j].paymentStatus = "pending" /\ orders[j].totalAmount = 15
    /\ stats.totalOrders = 2 /\ stats.totalRevenue = 16
    /\ stats.totalProducts = 1 /\ stats.totalUsers = 1

\* ------------------------------------------------------ Spec: properties
Started(c) == call[c].gate # "none"
Settled(c) == call[c].gate \in {"resolved", "rejected"}
AuthTimeoutError == [code |-> "none", message |-> AuthTimeoutMessage]
IsDeniedError(e) == e.code = "none" /\ e.message # <<>> /\ e.message[1] = "Firestore permissions denied"
AllNull(seq) == \A i \in DOMAIN seq : seq[i] = NoUser

\* C5: a getDashboardStats call whose auth wait timed out issues no read of
\* orders, products or users and rejects with the Authentication-Timeout error.
C5_StatsTimeoutNoRead ==
    \A c \in Calls :
        (call[c].fn = "getDashboardStats" /\ call[c].gate = "rejected") =>
            /\ call[c].reads = <<>>
            /\ call[c].outcome # "returned"
            /\ call[c].pc = "done" => (call[c].outcome = "rejected" /\ call[c].error = AuthTimeoutError)

C5_Witness ==
    \E c \in Calls :
        /\ call[c].fn = "getDashboardStats" /\ call[c].userAtCall = NoUser
        /\ call[c].gate = "rejected" /\ call[c].pc = "done"
        /\ call[c].outcome = "rejected" /\ call[c].error = AuthTimeoutError

\* C6 as stated: in every aggregation function a read is issued only after
\* the gate has produced a principal, never after it failed or timed out.
C6_Original ==
    \A c \in Calls : call[c].reads # <<>> => call[c].gate = "resolved"

\* C6 amended: no function reads while the gate is pending; every function
\* but getTopProducts reads only after the gate produced a principal, and
\* getTopProducts reads once the gate has settled either way.
C6_ReadsAfterGate ==
    \A c \in Calls :
        /\ call[c].reads # <<>> => Settled(c)
        /\ (call[c].reads # <<>> /\ call[c].fn # "getTopProducts") => call[c].gate = "resolved"
        /\ (call[c].fn # "getTopProducts" /\ call[c].gate = "rejected") => call[c].reads = <<>>

C6_Witness ==
    \E c, d \in Calls :
        /\ call[c].fn = "getTopProducts" /\ call[c].gate = "rejected" /\ call[c].reads = <<"orders">>
        /\ call[d].fn = "getCategoryDistribution" /\ call[d].gate = "resolved"
        /\ call[d].userAtCall = NoUser /\ call[d].reads = <<"orders", "products">>

\* C7 as stated: every requireUser call creates exactly one subscription, and
\* once it has settled its subscription and its timer are released.
C7_Original ==
    \A c \in Calls :
        Started(c) =>
            /\ call[c].subsCreated = 1
            /\ Settled(c) => (~call[c].sub /\ ~call[c].timer)

\* C7 amended: a requireUser call that finds no current principal creates
\* exactly one subscription and a call that returns on the fast path creates
\* none; once a call has settled, its subscription is released and its timer
\* is no longer pending, so none remains when all calls have settled.
C7_SubscriptionTornDown ==
    /\ \A c \in Calls :
          Started(c) =>
              /\ call[c].subsCreated = (IF call[c].userAtCall = NoUser THEN 1 ELSE 0)
              /\ Settled(c) => (~call[c].sub /\ ~call[c].timer)
              /\ call[c].gate = "pending" => (call[c].sub /\ call[c].timer)
    /\ (\A c \in Calls : Settled(c)) => Cardinality({c \in Calls : call[c].sub \/ call[c].timer}) = 0

C7_Witness ==
    /\ \A c \in Calls : Settled(c) /\ call[c].subsCreated = 1 /\ ~call[c].sub /\ ~call[c].timer
    /\ \E c, d \in Calls : call[c].gate = "resolved" /\ call[d].gate = "rejected"

\* C8: requireUser returns the current principal at once when there is one;
\* otherwise it resolves with the first non-null principal delivered to its
\* listener, and a null notification neither resolves the call nor releases
\* its subscription or timer.
C8_FirstPrincipal ==
    \A c \in Calls :
        Started(c) =>
            /\ call[c].userAtCall # NoUser =>
                  (call[c].gate = "resolved" /\ call[c].gateUser = call[c].userAtCall
                   /\ call[c].delivered = <<>>)
            /\ (call[c].userAtCall = NoUser /\ call[c].gate = "resolved") =>
                  LET d == call[c].delivered
                  IN  /\ d # <<>>
                      /\ d[Len(d)] # NoUser
                      /\ call[c].gateUser = d[Len(d)]
                      /\ AllNull(SubSeq(d, 1, Len(d) - 1))
            /\ (call[c].userAtCall = NoUser /\ AllNull(call[c].delivered) /\ call[c].gate # "rejected") =>
                  (call[c].gate = "pending" /\ call[c].sub /\ call[c].timer)

C8_Witness ==
    \E c, d \in Calls :
        /\ call[c].userAtCall = NoUser
        /\ call[c].delivered = <<NoUser, "bob">>
        /\ call[c].gate = "resolved" /\ call[c].gateUser = "bob"
        /\ call[d].userAtCall = "bob" /\ call[d].gate = "resolved" /\ call[d].gateUser = "bob"
        /\ call[d].subsCreated = 0

\* C9: every requireUser call eventually settles, and once settled its
\* outcome never changes: it resolved with a principal or it was rejected by
\* the timeout, and no later notification or timer expiry alters that.
C9_SettlesOnce ==
    /\ \A c \in Calls : (call[c].gate = "pending") ~> Settled(c)
    /\ [][\A c \in Calls :
            Settled(c) => (call'[c].gate = call[c].gate /\ call'[c].gateUser = call[c].gateUser)]_vars
    /\ [](\A c \in Calls :
            /\ call[c].gate = "resolved" => call[c].gateUser \in Principals
            /\ call[c].gate = "rejected" => (call[c].gateUser = NoUser /\ AllNull(call[c].delivered)))

C9_Witness ==
    \E c, d \in Calls :
        /\ call[c].gate = "rejected" /\ call[c].delivered = <<NoUser>> /\ currentUser \in Principals
        /\ call[d].gate = "resolved" /\ call[d].userAtCall = NoUser

\* what the catch block of the call was given
GateTimedOut(c) == call[c].gate = "rejected"
ReadFailed(c) == call[c].readError # NoError

\* C10 as stated: a permission-denied read makes the function reject with
\* the 'Firestore permissions denied' error; any other read failure, or a
\* timeout of the auth gate, makes it reject with the original error.
C10_Original ==
    \A c \in Calls :
        call[c].pc = "done" =>
            /\ (ReadFailed(c) /\ call[c].readError.code = "permission-denied") =>
                  (call[c].outcome = "rejected" /\ IsDeniedError(call[c].error))
            /\ (ReadFailed(c) /\ call[c].readError.code # "permission-denied") =>
                  (call[c].outcome = "rejected" /\ call[c].error = call[c].readError)
            /\ GateTimedOut(c) =>
                  (call[c].outcome = "rejected" /\ call[c].error = AuthTimeoutError)

\* C10 amended: as stated for read failures; a timeout of the auth gate makes
\* every function but getTopProducts reject with the timeout error unchanged,
\* while getTopProducts goes on to its read and ends as that read decides.
C10_ErrorTranslation ==
    \A c \in Calls :
        call[c].pc = "done" =>
            /\ (ReadFailed(c) /\ call[c].readError.code = "permission-denied") =>
                  (call[c].outcome = "rejected" /\ IsDeniedError(call[c].error))
            /\ (ReadFailed(c) /\ call[c].readError.code # "permission-denied") =>
                  (call[c].outcome = "rejected" /\ call[c].error = call[c].readError)
            /\ (GateTimedOut(c) /\ call[c].fn # "getTopProducts") =>
                  (call[c].outcome = "rejected" /\ call[c].error = AuthTimeoutError)
            /\ (GateTimedOut(c) /\ call[c].fn = "getTopProducts") =>
                  (call[c].reads = <<"orders">> /\ (call[c].outcome = "returned" <=> ~ReadFailed(c)))

C10_Witness ==
    \E c, d \in Calls :
        /\ call[c].fn = "getDashboardStats" /\ call[c].reads = <<"orders", "products", "users">>
        /\ call[c].readError.code = "permission-denied" /\ call[c].error = NewError(DeniedUsersAndOrders)
        /\ call[d].fn = "getTopProducts" /\ call[d].gate = "rejected"
        /\ call[d].readError.code = "unavailable" /\ call[d].error = call[d].readError

\* ------------------------------------------------------------------- C11
\* the reads issued so far are the first reads of the function's plan, each once
IsPlanPrefix(c) ==
    /\ Len(call[c].reads) <= Len(ReadPlan(call[c].fn))
    /\ call[c].reads = SubSeq(ReadPlan(call[c].fn), 1, Len(call[c].reads))

\* C11 as stated: an aggregation call returns a result only when its auth
\* wait produced a principal and every read of its plan succeeded; a failed
\* auth wait or a failed read makes the call reject, and no read is repeated.
C11_Original ==
    \A c \in Calls :
        /\ IsPlanPrefix(c)
        /\ call[c].outcome = "returned" =>
              (call[c].gate = "resolved" /\ ~ReadFailed(c) /\ call[c].reads = ReadPlan(call[c].fn))
        /\ (call[c].pc = "done" /\ (GateTimedOut(c) \/ ReadFailed(c))) =>
              call[c].outcome = "rejected"

\* C11 amended: a call returns a result only when every read of its plan
\* succeeded; a failed read makes the call reject without another read, no
\* read is repeated, and a failed auth wait makes every function but
\* getTopProducts reject with no read at all (getTopProducts goes on to its
\* single read and returns the complete aggregate when that read succeeds).
C11_NoPartialAggregate ==
    \A c \in Calls :
        /\ IsPlanPrefix(c)
        /\ call[c].outcome = "returned" =>
              /\ ~ReadFailed(c)
              /\ call[c].reads = ReadPlan(call[c].fn)
              /\ call[c].gate = "resolved" \/ call[c].fn = "getTopProducts"
        /\ ReadFailed(c) => (call[c].pc = "done" /\ call[c].outcome = "rejected")
        /\ (call[c].pc = "done" /\ GateTimedOut(c) /\ call[c].fn # "getTopProducts") =>
              (call[c].outcome = "rejected" /\ call[c].reads = <<>>)

\* the orders read of getDashboardStats succeeded and its products read failed
C11_Witness ==
    \E c \in Calls :
        /\ call[c].fn = "getDashboardStats"
        /\ call[c].reads = <<"orders", "products">>
        /\ ReadFailed(c)
        /\ call[c].outcome = "rejected"

\* ------------------------------------------------------------------ strings
\* a string is the sequence of its characters
UpperCase == <<"A", "B", "C", "D", "E", "F", "G", "H", "I", "J", "K", "L", "M", "N", "O", "P", "Q", "R", "S", "T", "U", "V", "W", "X", "Y", "Z">>
LowerCase == <<"a", "b", "c", "d", "e", "f", "g", "h", "i", "j", "k", "l", "m", "n", "o", "p", "q", "r", "s", "t", "u", "v", "w", "x", "y", "z">>

\* String.prototype.toLowerCase
toLowerCase(s) ==
    [i \in 1..Len(s) |->
        IF \E k \in 1..Len(UpperCase) : UpperCase[k] = s[i]
        THEN LowerCase[CHOOSE k \in 1..Len(UpperCase) : UpperCase[k] = s[i]]
        ELSE s[i]]

\* String.prototype.includes
StringIncludes(s, w) == \E i \in 0..(Len(s) - Len(w)) : SubSeq(s, i + 1, i + Len(w)) = w

\* the keywords of categorizeByName
Keywords ==
    [basketball |-> <<"b", "a", "s", "k", "e", "t", "b", "a", "l", "l">>,
     ball |-> <<"b", "a", "l", "l">>,
     running |-> <<"r", "u", "n", "n", "i", "n", "g">>,
     run |-> <<"r", "u", "n">>,
     shirt |-> <<"s", "h", "i", "r", "t">>,
     clothing |-> <<"c", "l", "o", "t", "h", "i", "n", "g">>,
     shorts |-> <<"s", "h", "o", "r", "t", "s">>,
     apparel |-> <<"a", "p", "p", "a", "r", "e", "l">>,
     sneaker |-> <<"s", "n", "e", "a", "k", "e", "r">>,
     shoe |-> <<"s", "h", "o", "e">>,
     nike |-> <<"n", "i", "k", "e">>,
     adidas |-> <<"a", "d", "i", "d", "a", "s">>]

\* a variant that tests the name as it is written, without lower-casing it
categorizeByNameCaseSensitive(name) ==
    IF StringIncludes(name, Keywords.basketball) \/ StringIncludes(name, Keywords.ball) THEN "Basketball"
    ELSE IF StringIncludes(name, Keywords.running) \/ StringIncludes(name, Keywords.run) THEN "Running"
    ELSE IF \/ StringIncludes(name, Keywords.shirt) \/ StringIncludes(name, Keywords.clothing)
            \/ StringIncludes(name, Keywords.shorts) \/ StringIncludes(name, Keywords.apparel) THEN "Clothing"
    ELSE IF \/ StringIncludes(name, Keywords.sneaker) \/ StringIncludes(name, Keywords.shoe)
            \/ StringIncludes(name, Keywords.nike) \/ StringIncludes(name, Keywords.adidas) THEN "Sneakers"
    ELSE "Other"

\* categorizeByName: the keyword fallback classifier
categorizeByName(name) ==
    LET itemName == toLowerCase(name)
    IN  IF StringIncludes(itemName, Keywords.basketball) \/ StringIncludes(itemName, Keywords.ball) THEN "Basketball"
        ELSE IF StringIncludes(itemName, Keywords.running) \/ StringIncludes(itemName, Keywords.run) THEN "Running"
        ELSE IF \/ StringIncludes(itemName, Keywords.shirt) \/ StringIncludes(itemName, Keywords.clothing)
                \/ StringIncludes(itemName, Keywords.shorts) \/ StringIncludes(itemName, Keywords.apparel) THEN "Clothing"
        ELSE IF \/ StringIncludes(itemName, Keywords.sneaker) \/ StringIncludes(itemName, Keywords.shoe)
                \/ StringIncludes(itemName, Keywords.nike) \/ StringIncludes(itemName, Keywords.adidas) THEN "Sneakers"
        ELSE "Other"

\* --------------------------------------------------- SpecClassifier actions
\* the pieces the names handed to the classifier are put together from
Fragments ==
    {<<"N", "i", "k", "e", " ">>,
     <<"A", "i", "r", " ">>,
     <<"M", "a", "x">>,
     <<"B", "a", "s", "k", "e", "t">>,
     <<"b", "a", "l", "l">>,
     <<"R", "U", "N">>,
     <<"R", "u", "n", "n", "i", "n", "g", " ">>,
     <<"T", "r", "u", "n", "k">>,
     <<"S", "h", "i", "r", "t">>,
     <<"S", "h", "o", "r", "t", "s">>,
     <<"C", "l", "o", "t", "h", "i", "n", "g", " ">>,
     <<"A", "p", "p", "a", "r", "e", "l">>,
     <<"S", "n", "e", "a", "k", "e", "r">>,
     <<"S", "h", "o", "e">>,
     <<"a", "d", "i", "d", "a", "s", " ">>,
     <<"S", "o", "c", "k">>,
     <<"s">>,
     <<"B", "A", "L", "L">>}

\* the names of at most n pieces
RECURSIVE NamesOf(_)
NamesOf(n) ==
    IF n = 0 THEN {<<>>}
    ELSE NamesOf(n - 1) \cup {a \o w : a \in NamesOf(n - 1), w \in Fragments}

Names == NamesOf(MaxWords)

\* the variables of the auth gate while another specification runs
InitAsyncIdle ==
    /\ currentUser = NoUser
    /\ authEvents = 0
    /\ call = [c \in Calls |-> IdleCall]

InitClassifier ==
    /\ productName \in Names
    /\ category = NotClassified
    /\ InitStatsIdle /\ InitAsyncIdle /\ InitCategoryIdle /\ InitChartIdle /\ InitTopIdle /\ InitLayoutIdle /\ InitUserServiceIdle /\ InitProductAdminIdle /\ InitTableIdle /\ InitMiniChartIdle /\ InitDashboardIdle

\* categorizeByName is applied to the name
Categorize ==
    /\ category = NotClassified
    /\ category' = categorizeByName(productName)
    /\ UNCHANGED productName
    /\ UNCHANGED classifierFrame

NextClassifier == Categorize

SpecClassifier == InitClassifier /\ [][NextClassifier]_vars

\* ------------------------------------------------------------------- C19
\* the rules of the classifier in their order: a category and its keywords
Rules ==
    << [category |-> "Basketball", keywords |-> {Keywords.basketball, Keywords.ball}],
       [category |-> "Running", keywords |-> {Keywords.running, Keywords.run}],
       [category |-> "Clothing", keywords |-> {Keywords.shirt, Keywords.clothing, Keywords.shorts, Keywords.apparel}],
       [category |-> "Sneakers", keywords |-> {Keywords.sneaker, Keywords.shoe, Keywords.nike, Keywords.adidas}] >>

RuleMatches(i, name) == \E w \in Rules[i].keywords : StringIncludes(toLowerCase(name), w)

NikeAirMax == <<"N", "i", "k", "e", " ", "A", "i", "r", " ", "M", "a", "x">>

\* C19: the classifier gives every name exactly one of Basketball, Running,
\* Clothing, Sneakers, Other: the category of the first rule, in the order
\* Basketball, Running, Clothing, Sneakers, one of whose keywords occurs in
\* the lower-cased name, and Other when no rule matches; "Nike Air Max" is
\* classified as Sneakers.
C19_Classifier ==
    category # NotClassified =>
        /\ category \in {"Basketball", "Running", "Clothing", "Sneakers", "Other"}
        /\ \A i \in DOMAIN Rules :
              (RuleMatches(i, productName) /\ \A j \in 1..(i - 1) : ~RuleMatches(j, productName))
                  => category = Rules[i].category
        /\ (\A i \in DOMAIN Rules : ~RuleMatches(i, productName)) => category = "Other"
        /\ productName = NikeAirMax => category = "Sneakers"

C19_Witness == productName = NikeAirMax /\ category = "Sneakers"

\* ------------------------------------------------------------ plain objects
\* an object used as a map: its entries [key, value] in insertion order
HasKey(obj, k) == \E i \in DOMAIN obj : obj[i].key = k

\* obj[k], with `undefined` for a missing key
Get(obj, k, undefined) ==
    IF HasKey(obj, k) THEN obj[CHOOSE i \in DOMAIN obj : obj[i].key = k].value ELSE undefined

\* obj[k] = v: a present key keeps its place, a new key goes last
Put(obj, k, v) ==
    IF HasKey(obj, k)
    THEN [i \in DOMAIN obj |-> IF obj[i].key = k THEN [key |-> k, value |-> v] ELSE obj[i]]
    ELSE Append(obj, [key |-> k, value |-> v])

\* Array.prototype.sort with a comparator: precedes[x][y] is
\* compare(s[x], s[y]) < 0. The places of the array are taken one by one
\* into a sorted list of places, each before the first place it precedes, so
\* that elements that compare equal keep their order
InsertInto(sorted, x, precedes) ==
    LET later == {k \in DOMAIN sorted : precedes[x][sorted[k]]}
        at == IF later = {} THEN Len(sorted) + 1
              ELSE CHOOSE k \in later : \A m \in later : k <= m
    IN  SubSeq(sorted, 1, at - 1) \o <<x>> \o SubSeq(sorted, at, Len(sorted))

\* the sort continued from the sorted list of the places 1..Len(sorted)
RECURSIVE SortFrom(_, _, _)
SortFrom(sorted, n, precedes) ==
    IF Len(sorted) = n THEN sorted
    ELSE SortFrom(InsertInto(sorted, Len(sorted) + 1, precedes), n, precedes)

\* the elements of s at the places listed
Pick(s, order) == [r \in DOMAIN order |-> s[order[r]]]

Sort(s, precedes) == Pick(s, SortFrom(<<>>, Len(s), precedes))

\* ----------------------------------------------------- category distribution
\* a product document without a name field, and one without a category
NoName == <<"undefined">>
NoCategory == ""

NameBall == <<"B", "a", "l", "l">>
ProductNames == {NameBall, NoName}
ProductCategories == {"Lifestyle", NoCategory}
ProductDoc == [name : ProductNames, category : ProductCategories]

NameBALL == <<"B", "A", "L", "L">>
ItemNames == {NameBALL, <<"S", "o", "c", "k">>, <<"S", "h", "o", "e">>}
Quantities == {0, 2}
Item == [name : ItemNames, quantity : Quantities]
ItemLists == UNION {[1..n -> Item] : n \in 0..MaxItems}
ItemOrder == [paymentStatus : {"success", "pending"}, items : ItemLists]

\* where("paymentStatus", "==", "success")
WhereSuccess(os) == SelectSeq(os, LAMBDA o : o.paymentStatus = "success")

\* productsSnapshot.forEach: the lookup from lower-cased product name to
\* category; categorizeByName(undefined) throws
RECURSIVE ForEachProduct(_, _, _)
ForEachProduct(docs, i, acc) ==
    IF i > Len(docs) \/ acc.threw THEN acc
    ELSE LET product == docs[i]
             productName_ == IF product.name = NoName THEN NoName ELSE toLowerCase(product.name)
         IN  IF product.category = NoCategory /\ product.name = NoName
             THEN [acc EXCEPT !.threw = TRUE]
             ELSE LET category_ == IF product.category # NoCategory
                                   THEN product.category
                                   ELSE categorizeByName(product.name)
                  IN  ForEachProduct(docs, i + 1,
                          IF productName_ # NoName /\ productName_ # <<>>
                          THEN [acc EXCEPT !.map = Put(@, productName_, category_)]
                          ELSE acc)

\* a variant that looks the item up under its name as written
ItemCategoryByExactName(productCategoryMap, item) ==
    LET found == Get(productCategoryMap, item.name, NoCategory)
    IN  IF found = NoCategory THEN categorizeByName(item.name) ELSE found

\* the category of a line item: the lookup first, the classifier as fallback
ItemCategory(productCategoryMap, item) ==
    LET found == Get(productCategoryMap, toLowerCase(item.name), NoCategory)
    IN  IF found = NoCategory THEN categorizeByName(item.name) ELSE found

\* order.items.forEach
RECURSIVE ForEachItem(_, _, _, _)
ForEachItem(items, i, productCategoryMap, acc) ==
    IF i > Len(items) THEN acc
    ELSE LET c == ItemCategory(productCategoryMap, items[i])
         IN  ForEachItem(items, i + 1, productCategoryMap,
                 [categoryCount |-> Put(acc.categoryCount, c,
                                        Get(acc.categoryCount, c, 0) + items[i].quantity),
                  totalItems |-> acc.totalItems + items[i].quantity])

\* ordersSnapshot.forEach
RECURSIVE ForEachItemOrder(_, _, _, _)
ForEachItemOrder(os, i, productCategoryMap, acc) ==
    IF i > Len(os) THEN acc
    ELSE ForEachItemOrder(os, i + 1, productCategoryMap,
             ForEachItem(os[i].items, 1, productCategoryMap, acc))

categoryColors ==
    << [key |-> "Basketball", value |-> "#0088FE"], [key |-> "Running", value |-> "#00C49F"],
       [key |-> "Clothing", value |-> "#FFBB28"], [key |-> "Sneakers", value |-> "#FF8042"],
       [key |-> "Other", value |-> "#8884D8"] >>
FallbackColor == "#8884D8"

\* a variant that cuts the share off instead of rounding it
ShareTruncated(count, totalItems) ==
    IF totalItems > 0 THEN MathRoundTrunc(count * 100, totalItems) ELSE 0

\* totalItems > 0 ? Math.round((count / totalItems) * 100) : 0
Share(count, totalItems) ==
    IF totalItems > 0 THEN MathRound(count * 100, totalItems) ELSE 0

\* a variant that leaves out the categories that have no unit
ToCategoryDataPositiveOnly(categoryCount, totalItems) ==
    LET kept == SelectSeq(categoryCount, LAMBDA e : e.value > 0)
    IN  [i \in DOMAIN kept |->
            [name |-> kept[i].key,
             value |-> Share(kept[i].value, totalItems),
             color |-> Get(categoryColors, kept[i].key, FallbackColor)]]

\* Object.entries(categoryCount).map(...): category names are not array
\* indices, so the entries come in insertion order
ToCategoryData(categoryCount, totalItems) ==
    [i \in DOMAIN categoryCount |->
        [name |-> categoryCount[i].key,
         value |-> Share(categoryCount[i].value, totalItems),
         color |-> Get(categoryColors, categoryCount[i].key, FallbackColor)]]

\* (a, b) => b.value - a.value
ByValueDescending(a, b) == b.value - a.value < 0

\* getCategoryDistribution after its two reads
CategoryDistribution(os, docs) ==
    LET lookup == ForEachProduct(docs, 1, [threw |-> FALSE, map |-> <<>>])
        acc == ForEachItemOrder(WhereSuccess(os), 1, lookup.map,
                                [categoryCount |-> <<>>, totalItems |-> 0])
    IN  IF lookup.threw
        THEN [outcome |-> "rejected"]
        ELSE [outcome |-> "returned",
              productCategoryMap |-> lookup.map,
              categoryCount |-> acc.categoryCount,
              totalItems |-> acc.totalItems,
              categoryData |->
                  LET data == ToCategoryData(acc.categoryCount, acc.totalItems)
                  IN  Sort(data, [i \in DOMAIN data |-> [j \in DOMAIN data |->
                                     ByValueDescending(data[i], data[j])]])]

\* ---------------------------------------------------- SpecCategory actions
InitCategory ==
    /\ catalog = <<>>
    /\ itemOrders = <<>>
    /\ distribution = NotFetched
    /\ InitStatsIdle /\ InitAsyncIdle /\ InitClassifierIdle /\ InitChartIdle /\ InitTopIdle /\ InitLayoutIdle /\ InitUserServiceIdle /\ InitProductAdminIdle /\ InitTableIdle /\ InitMiniChartIdle /\ InitDashboardIdle

\* an admin adds a product document
AddCatalogProduct(p) ==
    /\ distribution = NotFetched
    /\ Len(catalog) < MaxCatalog
    /\ catalog' = Append(catalog, p)
    /\ UNCHANGED <<itemOrders, distribution>>
    /\ UNCHANGED categoryFrame

\* the storefront checkout (outside this repository) adds an order document
PlaceItemOrder(o) ==
    /\ distribution = NotFetched
    /\ Len(itemOrders) < MaxItemOrders
    /\ itemOrders' = Append(itemOrders, o)
    /\ UNCHANGED <<catalog, distribution>>
    /\ UNCHANGED categoryFrame

\* getCategoryDistribution runs on the collections as they are
GetCategoryDistribution ==
    /\ distribution = NotFetched
    /\ distribution' = CategoryDistribution(itemOrders, catalog)
    /\ UNCHANGED <<catalog, itemOrders>>
    /\ UNCHANGED categoryFrame

NextCategory ==
    \/ \E p \in ProductDoc : AddCatalogProduct(p)
    \/ \E o \in ItemOrder : PlaceItemOrder(o)
    \/ GetCategoryDistribution

SpecCategory == InitCategory /\ [][NextCategory]_vars

\* ------------------------------------------------------------- C12 .. C14
\* the line items of the successful orders, in order
RECURSIVE SuccessfulItems(_)
SuccessfulItems(os) ==
    IF os = <<>> THEN <<>>
    ELSE (IF Head(os).paymentStatus = "success" THEN Head(os).items ELSE <<>>)
         \o SuccessfulItems(Tail(os))

\* the category a product document stands for: its own, or the classifier's
CategoryOfProduct(p) ==
    IF p.category # NoCategory THEN p.category ELSE categorizeByName(p.name)

\* the category the claim assigns to an item under a lookup
Assigned(lookup, item) ==
    IF HasKey(lookup, toLowerCase(item.name))
    THEN Get(lookup, toLowerCase(item.name), NoCategory)
    ELSE categorizeByName(item.name)

\* the quantities of the items assigned to category k, added up
RECURSIVE UnitsAssigned(_, _, _)
UnitsAssigned(items, lookup, k) ==
    IF items = <<>> THEN 0
    ELSE (IF Assigned(lookup, Head(items)) = k THEN Head(items).quantity ELSE 0)
         + UnitsAssigned(Tail(items), lookup, k)

\* items go to the lookup's category for their lower-cased name, else to the
\* classifier's, and each category counts the quantities of its items
ItemsCounted ==
    LET d == distribution
        items == SuccessfulItems(itemOrders)
    IN  /\ \A i \in DOMAIN items : HasKey(d.categoryCount, Assigned(d.productCategoryMap, items[i]))
        /\ \A e \in DOMAIN d.categoryCount :
              /\ \E i \in DOMAIN items :
                    Assigned(d.productCategoryMap, items[i]) = d.categoryCount[e].key
              /\ d.categoryCount[e].value =
                    UnitsAssigned(items, d.productCategoryMap, d.categoryCount[e].key)

Named(p) == p.name # NoName /\ p.name # <<>>

\* C12 as stated: the lookup holds, for each named product, that product's
\* category (its explicit one, else the classifier's) under its lower-cased
\* name; items are assigned and counted through it.
C12_Original ==
    distribution.outcome = "returned" =>
        /\ \A i \in DOMAIN catalog :
              Named(catalog[i]) =>
                  Get(distribution.productCategoryMap, toLowerCase(catalog[i].name), NoCategory)
                      = CategoryOfProduct(catalog[i])
        /\ ItemsCounted

\* C12 amended: the lookup has one entry per lower-cased name of a named
\* product, holding the category of the last product read with that name;
\* items are assigned and counted through it; the call rejects exactly when
\* some product has neither a name nor a category.
C12_LookupThenClassifier ==
    /\ distribution.outcome = "returned" =>
        /\ \A i \in DOMAIN catalog :
              (/\ Named(catalog[i])
               /\ \A j \in DOMAIN catalog :
                     (j > i /\ Named(catalog[j])) =>
                         toLowerCase(catalog[j].name) # toLowerCase(catalog[i].name))
                  => Get(distribution.productCategoryMap, toLowerCase(catalog[i].name), NoCategory)
                         = CategoryOfProduct(catalog[i])
        /\ \A e \in DOMAIN distribution.productCategoryMap :
              \E i \in DOMAIN catalog :
                  Named(catalog[i]) /\ toLowerCase(catalog[i].name) = distribution.productCategoryMap[e].key
        /\ ItemsCounted
    /\ distribution.outcome = "rejected" <=>
          (/\ distribution # NotFetched
           /\ \E i \in DOMAIN catalog :
                 catalog[i].name = NoName /\ catalog[i].category = NoCategory)

\* two products share a lower-cased name, and an item written in another
\* case is counted under the category of the later one
C12_Witness ==
    /\ distribution.outcome = "returned"
    /\ catalog = << [name |-> NameBall, category |-> NoCategory],
                    [name |-> NameBall, category |-> "Lifestyle"] >>
    /\ \E i \in DOMAIN itemOrders :
          /\ itemOrders[i].paymentStatus = "success"
          /\ \E k \in DOMAIN itemOrders[i].items :
                itemOrders[i].items[k] = [name |-> NameBALL, quantity |-> 2]
    /\ Get(distribution.categoryCount, "Lifestyle", 0) >= 2
    /\ ~HasKey(distribution.categoryCount, "Basketball")

RECURSIVE SumOfShares(_)
SumOfShares(data) == IF data = <<>> THEN 0 ELSE Head(data).value + SumOfShares(Tail(data))

\* v is x = count / total * 100 rounded to the nearest integer, halves up
IsRounded(v, count, total) ==
    /\ 2 * v * total - total <= 200 * count
    /\ 200 * count < 2 * v * total + total

\* the returned list has exactly one entry for each counted category
OneEntryPerCategory ==
    LET d == distribution
    IN  /\ Len(d.categoryData) = Len(d.categoryCount)
        /\ \A e \in DOMAIN d.categoryCount :
              \E i \in DOMAIN d.categoryData : d.categoryData[i].name = d.categoryCount[e].key

\* C13: when the total of units is positive, each returned share is
\* count / total * 100 rounded to the nearest integer, and the shares add up
\* to 100 give or take the number of returned categories.
C13_SharesSum ==
    (distribution.outcome = "returned" /\ distribution.totalItems > 0) =>
        LET d == distribution
        IN  /\ OneEntryPerCategory
            /\ \A i \in DOMAIN d.categoryData :
                  IsRounded(d.categoryData[i].value,
                            Get(d.categoryCount, d.categoryData[i].name, 0), d.totalItems)
            /\ Abs(SumOfShares(d.categoryData) - 100) <= Len(d.categoryData)

\* three categories with a third of the units each: the shares add up to 99
C13_Witness ==
    /\ distribution.outcome = "returned"
    /\ distribution.totalItems > 0
    /\ Len(distribution.categoryData) = 3
    /\ SumOfShares(distribution.categoryData) = 99

\* C14 as stated: when the total of units is 0 the returned list is empty.
C14_Original ==
    (distribution.outcome = "returned" /\ distribution.totalItems = 0) =>
        distribution.categoryData = <<>>

\* C14 amended: when the total of units is 0 nothing is divided: the list is
\* empty when the successful orders have no line item at all, and otherwise
\* has one entry of share 0 for each category of their zero-quantity items.
C14_ZeroUnits ==
    (distribution.outcome = "returned" /\ distribution.totalItems = 0) =>
        /\ OneEntryPerCategory
        /\ \A i \in DOMAIN distribution.categoryData : distribution.categoryData[i].value = 0
        /\ distribution.categoryData = <<>> <=> SuccessfulItems(itemOrders) = <<>>
        /\ \A i \in DOMAIN SuccessfulItems(itemOrders) :
              \E k \in DOMAIN distribution.categoryData :
                  distribution.categoryData[k].name =
                      Assigned(distribution.productCategoryMap, SuccessfulItems(itemOrders)[i])

\* a successful order whose only items have quantity 0: entries of share 0
C14_Witness ==
    /\ distribution.outcome = "returned"
    /\ distribution.totalItems = 0
    /\ Len(distribution.categoryData) = 2
    /\ \A i \in DOMAIN distribution.categoryData : distribution.categoryData[i].value = 0

\* ------------------------------------------------------- chart: date and keys
\* An order's creation instant is a count of half days since 2025-01-01T00:00Z;
\* the browser's local time is half a day ahead of UTC.
HalfDaysPerDay == 2
TimezoneOffset == 1
EpochYear == 2025
DaysPerYear == 365
CumulativeDays == <<0, 31, 59, 90, 120, 151, 181, 212, 243, 273, 304, 334, 365>>

\* the day an instant falls on, counted from the epoch, in UTC and locally
UTCDay(t) == t \div HalfDaysPerDay
LocalDay(t) == (t + TimezoneOffset) \div HalfDaysPerDay

\* getFullYear / getMonth (0..11) / getDate of a day
FullYearOf(d) == EpochYear + d \div DaysPerYear
MonthOf(d) ==
    (CHOOSE m \in 1..12 :
        CumulativeDays[m] <= d % DaysPerYear /\ d % DaysPerYear < CumulativeDays[m + 1]) - 1
DateOf(d) == (d % DaysPerYear) - CumulativeDays[MonthOf(d) + 1] + 1

\* the first half day of the given date (month 1..12)
HalfDayOf(year, month, date) ==
    ((year - EpochYear) * DaysPerYear + CumulativeDays[month] + date - 1) * HalfDaysPerDay

DigitChars == <<"0", "1", "2", "3", "4", "5", "6", "7", "8", "9">>

\* String(n) for a natural number
RECURSIVE NumberToString(_)
NumberToString(n) ==
    IF n < 10 THEN <<DigitChars[n + 1]>>
    ELSE NumberToString(n \div 10) \o <<DigitChars[(n % 10) + 1]>>

\* String.prototype.padStart with a one-character filler
RECURSIVE padStart(_, _, _)
padStart(s, targetLength, padString) ==
    IF Len(s) >= targetLength THEN s
    ELSE padStart(<<padString>> \o s, targetLength, padString)

\* orderDate.toISOString().split("T")[0]: the UTC date as YYYY-MM-DD
ISODate(t) ==
    padStart(NumberToString(FullYearOf(UTCDay(t))), 4, "0") \o <<"-">>
    \o padStart(NumberToString(MonthOf(UTCDay(t)) + 1), 2, "0") \o <<"-">>
    \o padStart(NumberToString(DateOf(UTCDay(t))), 2, "0")

\* `${getFullYear()}-${String(getMonth() + 1).padStart(2, "0")}`: the local month
YearMonth(t) ==
    NumberToString(FullYearOf(LocalDay(t))) \o <<"-">>
    \o padStart(NumberToString(MonthOf(LocalDay(t)) + 1), 2, "0")

\* the bucket key of an order for a period
dateKey(period, t) == IF period = "day" THEN ISODate(t) ELSE YearMonth(t)

\* String.prototype.localeCompare on keys of digits and hyphens: a.localeCompare(b) < 0
CharRank(c) == IF c = "-" THEN 0 ELSE CHOOSE k \in DOMAIN DigitChars : DigitChars[k] = c
LocaleLess(a, b) ==
    LET differ == {k \in DOMAIN a \cap DOMAIN b : a[k] # b[k]}
    IN  IF differ = {} THEN Len(a) < Len(b)
        ELSE LET first == CHOOSE k \in differ : \A m \in differ : k <= m
             IN  CharRank(a[first]) < CharRank(b[first])

\* a variant that sorts the newest bucket first
ByDateDescending(a, b) == LocaleLess(b.date, a.date)

\* (a, b) => a.date.localeCompare(b.date)
ByDateAscending(a, b) == LocaleLess(a.date, b.date)

\* a variant that keeps every element
SliceLastKeepAll(s, n) == s

\* Array.prototype.slice(-n)
SliceLast(s, n) == IF Len(s) <= n THEN s ELSE SubSeq(s, Len(s) - n + 1, Len(s))

DayLimit == 30
MonthLimit == 12

\* ------------------------------------------------------------- getChartData
\* amounts are in thousandths of a currency unit, returned revenue in hundredths
ThousandthsPerHundredth == 10
ChartStatuses == {"success", "pending"}

\* the instants of the orders that arrive one by one
FreeInstants ==
    {HalfDayOf(2025, 1, 1), HalfDayOf(2025, 1, 31) + 1, HalfDayOf(2025, 2, 3),
     HalfDayOf(2025, 10, 9), HalfDayOf(2026, 2, 20)}
ChartOrder ==
    [paymentStatus : ChartStatuses, totalAmount : {16004, NoAmount}, createdAt : FreeInstants]

\* a history of n successful orders, one a day from 2025-01-25 on
DailyHistory(n) ==
    [i \in 1..n |->
        [paymentStatus |-> "success", totalAmount |-> 15000,
         createdAt |-> HalfDayOf(2025, 1, 25) + (i - 1) * HalfDaysPerDay]]

\* a history of n successful orders, one a month from 2025-01-15 on
MonthlyHistory(n) ==
    [i \in 1..n |->
        [paymentStatus |-> "success", totalAmount |-> 15000,
         createdAt |-> HalfDayOf(EpochYear + ((i - 1) \div 12), ((i - 1) % 12) + 1, 15)]]

Histories ==
    {<<>>} \cup {DailyHistory(n) : n \in {DayLimit - 1, DayLimit + 1}}
           \cup {MonthlyHistory(n) : n \in {MonthLimit - 1, MonthLimit + 1}}

NoBucket == [revenue |-> 0, orders |-> 0]

\* chartData[dateKey].revenue += order.totalAmount || 0; chartData[dateKey].orders += 1
Accumulate(chartData, key, order) ==
    LET data == Get(chartData, key, NoBucket)
    IN  Put(chartData, key,
            [revenue |-> data.revenue + OrZero(order.totalAmount), orders |-> data.orders + 1])

\* ordersSnapshot.forEach: revenue and order count per bucket key; a key
\* that is not in chartData yet is first given an empty bucket
RECURSIVE ForEachChartOrder(_, _, _, _)
ForEachChartOrder(os, i, period, chartData) ==
    CASE i > Len(os) -> chartData
      [] i <= Len(os) /\ ~IsSuccess(os[i]) ->
            ForEachChartOrder(os, i + 1, period, chartData)
      [] i <= Len(os) /\ IsSuccess(os[i])
                     /\ HasKey(chartData, dateKey(period, os[i].createdAt)) ->
            ForEachChartOrder(os, i + 1, period,
                Accumulate(chartData, dateKey(period, os[i].createdAt), os[i]))
      [] i <= Len(os) /\ IsSuccess(os[i])
                     /\ ~HasKey(chartData, dateKey(period, os[i].createdAt)) ->
            ForEachChartOrder(os, i + 1, period,
                Accumulate(Put(chartData, dateKey(period, os[i].createdAt), NoBucket),
                           dateKey(period, os[i].createdAt), os[i]))

\* Object.entries(chartData).map(...): the keys are not array indices, so
\* the entries come in insertion order
ToChartDataPoints(chartData) ==
    [i \in DOMAIN chartData |->
        [date |-> chartData[i].key,
         revenue |-> MathRound(chartData[i].value.revenue, ThousandthsPerHundredth),
         orders |-> chartData[i].value.orders]]

\* getChartData after its read
ChartData(os, period) ==
    LET points == ToChartDataPoints(ForEachChartOrder(os, 1, period, <<>>))
        chartDataPoints ==
            Sort(points, [i \in DOMAIN points |-> [j \in DOMAIN points |->
                             ByDateAscending(points[i], points[j])]])
    IN  IF period = "day"
        THEN SliceLast(chartDataPoints, DayLimit)
        ELSE SliceLast(chartDataPoints, MonthLimit)

\* ------------------------------------------------------- SpecChart actions
InitChart ==
    /\ chartOrders \in Histories
    /\ chart = NotFetched
    /\ InitStatsIdle /\ InitAsyncIdle /\ InitClassifierIdle /\ InitCategoryIdle /\ InitTopIdle /\ InitLayoutIdle /\ InitUserServiceIdle /\ InitProductAdminIdle /\ InitTableIdle /\ InitMiniChartIdle /\ InitDashboardIdle

\* the storefront checkout (outside this repository) adds an order document
PlaceChartOrder(o) ==
    /\ chart = NotFetched
    /\ \E h \in Histories :
          /\ Len(h) <= Len(chartOrders)
          /\ Len(chartOrders) < Len(h) + MaxChartOrders
          /\ SubSeq(chartOrders, 1, Len(h)) = h
    /\ chartOrders' = Append(chartOrders, o)
    /\ UNCHANGED chart
    /\ UNCHANGED chartFrame

\* getChartData(period) runs on the collection as it is
GetChartData(period) ==
    /\ chart = NotFetched
    /\ chart' = [outcome |-> "returned", period |-> period,
                 points |-> ChartData(chartOrders, period)]
    /\ UNCHANGED chartOrders
    /\ UNCHANGED chartFrame

NextChart ==
    \/ \E o \in ChartOrder : PlaceChartOrder(o)
    \/ \E period \in {"day", "month"} : GetChartData(period)

SpecChart == InitChart /\ [][NextChart]_vars

\* ------------------------------------------------------------- C15, C16
\* the UTF-16 code unit of a character of a bucket key
CodeUnit(c) == IF c = "-" THEN 45 ELSE 47 + (CHOOSE k \in DOMAIN DigitChars : DigitChars[k] = c)

\* a is before b in lexicographic order
RECURSIVE LexLess(_, _)
LexLess(a, b) ==
    IF b = <<>> THEN FALSE
    ELSE IF a = <<>> THEN TRUE
    ELSE IF CodeUnit(Head(a)) # CodeUnit(Head(b)) THEN CodeUnit(Head(a)) < CodeUnit(Head(b))
    ELSE LexLess(Tail(a), Tail(b))

LimitOf(period) == IF period = "day" THEN 30 ELSE 12

\* C15: the keys of the returned series are strictly increasing in
\* lexicographic order, and there are at most 30 of them for "day" and at
\* most 12 for "month".
C15_KeysIncreasing ==
    chart.outcome = "returned" =>
        /\ \A i \in 1..(Len(chart.points) - 1) :
              LexLess(chart.points[i].date, chart.points[i + 1].date)
        /\ Len(chart.points) <= LimitOf(chart.period)

\* the successful orders whose bucket key for the period is k
OrdersOfBucket(period, k) ==
    {i \in DOMAIN chartOrders :
        chartOrders[i].paymentStatus = "success" /\ dateKey(period, chartOrders[i].createdAt) = k}
BucketKeys(period) ==
    {dateKey(period, chartOrders[i].createdAt) :
        i \in {j \in DOMAIN chartOrders : chartOrders[j].paymentStatus = "success"}}

\* 31 successful days: the 30 returned keys are increasing
C15_Witness ==
    /\ chart.outcome = "returned"
    /\ chart.period = "day"
    /\ Cardinality(BucketKeys("day")) > 30
    /\ Len(chart.points) = 30

\* the totalAmount of the orders in I added up, a missing one counting as 0
RECURSIVE SumOfBucket(_)
SumOfBucket(I) ==
    IF I = {} THEN 0
    ELSE LET i == CHOOSE j \in I : TRUE
         IN  (IF chartOrders[i].totalAmount = NoAmount THEN 0 ELSE chartOrders[i].totalAmount)
             + SumOfBucket(I \ {i})

\* the returned buckets are those with the greatest keys, all when few
NewestBucketsReturned ==
    LET returned == {chart.points[i].date : i \in DOMAIN chart.points}
        all == BucketKeys(chart.period)
    IN  /\ returned \subseteq all
        /\ Cardinality(returned) = Len(chart.points)
        /\ Len(chart.points) = IF Cardinality(all) > LimitOf(chart.period)
                               THEN LimitOf(chart.period) ELSE Cardinality(all)
        /\ \A k \in returned : \A j \in all \ returned : LexLess(j, k)

\* C16 as stated: a returned bucket's revenue is the sum of totalAmount of
\* the successful orders with its key, and its orders their number; the
\* returned buckets are the 30 (12) with the greatest keys, or all of them.
C16_Original ==
    chart.outcome = "returned" =>
        /\ \A i \in DOMAIN chart.points :
              /\ chart.points[i].revenue * ThousandthsPerHundredth
                    = SumOfBucket(OrdersOfBucket(chart.period, chart.points[i].date))
              /\ chart.points[i].orders
                    = Cardinality(OrdersOfBucket(chart.period, chart.points[i].date))
        /\ NewestBucketsReturned

\* C16 amended: a returned bucket's revenue is that sum rounded to two
\* decimal places; the rest as stated.
C16_BucketSums ==
    chart.outcome = "returned" =>
        /\ \A i \in DOMAIN chart.points :
              LET sum == SumOfBucket(OrdersOfBucket(chart.period, chart.points[i].date))
                  shown == chart.points[i].revenue * ThousandthsPerHundredth
              IN  /\ 2 * shown - ThousandthsPerHundredth <= 2 * sum
                  /\ 2 * sum < 2 * shown + ThousandthsPerHundredth
                  /\ chart.points[i].orders
                        = Cardinality(OrdersOfBucket(chart.period, chart.points[i].date))
        /\ NewestBucketsReturned

\* 13 successful months of which the oldest is dropped, and a bucket whose
\* sum has a third decimal place
C16_Witness ==
    /\ chart.outcome = "returned"
    /\ chart.period = "month"
    /\ Cardinality(BucketKeys("month")) > 12
    /\ Len(chart.points) = 12
    /\ \E i \in DOMAIN chart.points :
          /\ chart.points[i].orders = 2
          /\ SumOfBucket(OrdersOfBucket("month", chart.points[i].date)) = 31004
          /\ chart.points[i].revenue = 3100

\* ------------------------------------------------------------ getTopProducts
\* product ids are strings: "7" and "10" are array indices, "pa" is not
IdSeven == <<"7">>
IdTen == <<"1", "0">>
IdPa == <<"p", "a">>
ItemIds == {IdSeven, IdTen, IdPa}
SoldQuantities == {1, 2}
Prices == {10, 600}
SoldItem == [id : ItemIds, name : {"Jersey"}, quantity : SoldQuantities, price : Prices]
SoldItemLists == UNION {[1..n -> SoldItem] : n \in 0..MaxItems}
SalesOrder == [paymentStatus : {"success", "pending"}, items : SoldItemLists]
Limits == {1, 5}

IsDigit(c) == \E k \in DOMAIN DigitChars : DigitChars[k] = c

\* a property key that is an array index: the canonical decimal form of an
\* integer from 0 to 2^32 - 2
MaxArrayIndex == <<"4", "2", "9", "4", "9", "6", "7", "2", "9", "4">>

\* a < b for canonical decimal forms
NumeralLess(a, b) == Len(a) < Len(b) \/ (Len(a) = Len(b) /\ LocaleLess(a, b))

IsArrayIndex(k) ==
    /\ k # <<>>
    /\ \A i \in DOMAIN k : IsDigit(k[i])
    /\ Len(k) = 1 \/ k[1] # "0"
    /\ ~NumeralLess(MaxArrayIndex, k)

ByIndexAscending(a, b) == NumeralLess(a.key, b.key)

\* a variant that lists every key in insertion order
ObjectEntriesInsertionOrder(obj) == obj

\* Object.entries: array-index keys in ascending numeric order, then the
\* other keys in insertion order
ObjectEntries(obj) ==
    LET indexed == SelectSeq(obj, LAMBDA e : IsArrayIndex(e.key))
    IN  Sort(indexed, [i \in DOMAIN indexed |-> [j \in DOMAIN indexed |->
                          ByIndexAscending(indexed[i], indexed[j])]])
        \o SelectSeq(obj, LAMBDA e : ~IsArrayIndex(e.key))

\* a variant that adds the unit price once per line
LineRevenueUnitPrice(item) == item.price

\* item.price * item.quantity
LineRevenue(item) == item.price * item.quantity

\* order.items.forEach: units and revenue per product id
RECURSIVE ForEachSoldItem(_, _, _)
ForEachSoldItem(items, i, productSales) ==
    IF i > Len(items) THEN productSales
    ELSE LET item == items[i]
             data == Get(productSales, item.id, [name |-> item.name, sales |-> 0, revenue |-> 0])
         IN  ForEachSoldItem(items, i + 1,
                 Put(productSales, item.id,
                     [name |-> data.name,
                      sales |-> data.sales + item.quantity,
                      revenue |-> data.revenue + LineRevenue(item)]))

\* ordersSnapshot.forEach
RECURSIVE ForEachSalesOrder(_, _, _)
ForEachSalesOrder(os, i, productSales) ==
    IF i > Len(os) THEN productSales
    ELSE ForEachSalesOrder(os, i + 1, ForEachSoldItem(os[i].items, 1, productSales))

\* digits in groups of three, separated by commas
RECURSIVE Grouped(_)
Grouped(n) ==
    IF n < 1000 THEN NumberToString(n)
    ELSE Grouped(n \div 1000) \o <<",">> \o padStart(NumberToString(n % 1000), 3, "0")

\* new Intl.NumberFormat("en-MY", {style: "currency", currency: "MYR"}).format
\* of a whole amount
FormatMYR(n) == <<"R", "M", " ">> \o Grouped(n) \o <<".", "0", "0">>

\* (a, b) => b.sales - a.sales
BySalesDescending(a, b) == b.sales - a.sales < 0

\* Array.prototype.slice(0, n)
SliceFirst(s, n) == IF Len(s) <= n THEN s ELSE SubSeq(s, 1, n)

\* getTopProducts(limitCount) after its read
TopProducts(os, limitCount) ==
    LET productSales == ForEachSalesOrder(WhereSuccess(os), 1, <<>>)
        entries == ObjectEntries(productSales)
        mapped == [i \in DOMAIN entries |->
                      [id |-> entries[i].key,
                       name |-> entries[i].value.name,
                       sales |-> entries[i].value.sales,
                       revenue |-> FormatMYR(entries[i].value.revenue)]]
    IN  SliceFirst(Sort(mapped, [i \in DOMAIN mapped |-> [j \in DOMAIN mapped |->
                                    BySalesDescending(mapped[i], mapped[j])]]),
                   limitCount)

\* --------------------------------------------------------- SpecTop actions
InitTop ==
    /\ salesOrders = <<>>
    /\ top = NotFetched
    /\ InitStatsIdle /\ InitAsyncIdle /\ InitClassifierIdle /\ InitCategoryIdle /\ InitChartIdle /\ InitLayoutIdle /\ InitUserServiceIdle /\ InitProductAdminIdle /\ InitTableIdle /\ InitMiniChartIdle /\ InitDashboardIdle

\* the storefront checkout (outside this repository) adds an order document
PlaceSalesOrder(o) ==
    /\ top = NotFetched
    /\ Len(salesOrders) < MaxSalesOrders
    /\ salesOrders' = Append(salesOrders, o)
    /\ UNCHANGED top
    /\ UNCHANGED topFrame

\* getTopProducts(limitCount) runs on the collection as it is
GetTopProducts(limitCount) ==
    /\ top = NotFetched
    /\ top' = [outcome |-> "returned", limitCount |-> limitCount,
               products |-> TopProducts(salesOrders, limitCount)]
    /\ UNCHANGED salesOrders
    /\ UNCHANGED topFrame

NextTop ==
    \/ \E o \in SalesOrder : PlaceSalesOrder(o)
    \/ \E limitCount \in Limits : GetTopProducts(limitCount)

SpecTop == InitTop /\ [][NextTop]_vars

\* ------------------------------------------------------------- C17, C18
SoldItems == SuccessfulItems(salesOrders)
SoldIds == {SoldItems[i].id : i \in DOMAIN SoldItems}

\* the place of the first line item with this id
FirstSeen(id) ==
    CHOOSE i \in DOMAIN SoldItems :
        SoldItems[i].id = id /\ \A j \in 1..(i - 1) : SoldItems[j].id # id

RECURSIVE UnitsOf(_, _)
UnitsOf(items, id) ==
    IF items = <<>> THEN 0
    ELSE (IF Head(items).id = id THEN Head(items).quantity ELSE 0) + UnitsOf(Tail(items), id)

RECURSIVE RevenueOf(_, _)
RevenueOf(items, id) ==
    IF items = <<>> THEN 0
    ELSE (IF Head(items).id = id THEN Head(items).price * Head(items).quantity ELSE 0)
         + RevenueOf(Tail(items), id)

ReturnedIds == {top.products[i].id : i \in DOMAIN top.products}

\* the ranking follows the relation before: along the returned list, and
\* between every returned product and every product left out
RankedBy(before) ==
    /\ \A i, j \in DOMAIN top.products :
          i < j => before[top.products[i].id][top.products[j].id]
    /\ \A a \in ReturnedIds : \A b \in SoldIds \ ReturnedIds : before[a][b]

\* more units first; equal units in the order first met in the input
MoreUnitsThenFirstSeen(a, b) ==
    \/ UnitsOf(SoldItems, a) > UnitsOf(SoldItems, b)
    \/ UnitsOf(SoldItems, a) = UnitsOf(SoldItems, b) /\ FirstSeen(a) < FirstSeen(b)

\* the order of the keys of an object: array indices by value, then the rest
\* as first met
KeyOrder(a, b) ==
    \/ IsArrayIndex(a) /\ IsArrayIndex(b) /\ NumeralLess(a, b)
    \/ IsArrayIndex(a) /\ ~IsArrayIndex(b)
    \/ ~IsArrayIndex(a) /\ ~IsArrayIndex(b) /\ FirstSeen(a) < FirstSeen(b)

MoreUnitsThenKeyOrder(a, b) ==
    \/ UnitsOf(SoldItems, a) > UnitsOf(SoldItems, b)
    \/ UnitsOf(SoldItems, a) = UnitsOf(SoldItems, b) /\ KeyOrder(a, b)

C18_TopEntries ==
    top.outcome = "returned" =>
        /\ Len(top.products) = IF top.limitCount < Cardinality(SoldIds)
                               THEN top.limitCount ELSE Cardinality(SoldIds)
        /\ Cardinality(ReturnedIds) = Len(top.products)
        /\ ReturnedIds \subseteq SoldIds
        /\ \A i \in DOMAIN top.products :
              /\ top.products[i].sales = UnitsOf(SoldItems, top.products[i].id)
              /\ top.products[i].revenue = FormatMYR(RevenueOf(SoldItems, top.products[i].id))

\* three ids sold, one returned: 2 units at 600 and 1 unit at 10 in two orders
C18_Witness ==
    /\ top.outcome = "returned"
    /\ top.limitCount = 1
    /\ Cardinality(SoldIds) = 3
    /\ Len(top.products) = 1
    /\ top.products[1].sales = 3
    /\ top.products[1].revenue = <<"R", "M", " ", "1", ",", "2", "1", "0", ".", "0", "0">>

\* --------------------------------------------------------------- AdminLayout
\* what useAuth() hands to the component; the context itself is outside
\* this repository, so every combination of its values can arrive
AuthValues ==
    [user : {NoUser, "alice"}, loading : BOOLEAN, isAdmin : BOOLEAN,
     checkingAdminStatus : BOOLEAN]

\* a variant that shows the content to every signed-in user
RenderWithoutAdminCheck(a) ==
    IF a.loading \/ a.checkingAdminStatus THEN "spinner"
    ELSE IF a.user = NoUser THEN "null"
    ELSE "content"

\* the render function: the spinner, nothing, or the protected content
Render(a) ==
    IF a.loading \/ a.checkingAdminStatus THEN "spinner"
    ELSE IF a.user = NoUser \/ ~a.isAdmin THEN "null"
    ELSE "content"

\* the body of the effect: the route it pushes, if any
EffectPush(a) ==
    IF ~a.loading /\ ~a.checkingAdminStatus
    THEN IF a.user = NoUser THEN "/login"
         ELSE IF ~a.isAdmin THEN "/access-denied"
         ELSE "none"
    ELSE "none"

AdminRoute == "/"

\* ------------------------------------------------------ SpecLayout actions
\* an admin page mounts the layout: first render, effect scheduled
InitLayout ==
    /\ auth \in AuthValues
    /\ view = Render(auth)
    /\ effectPending = TRUE
    /\ route = AdminRoute
    /\ redirected = "none"
    /\ logout = "idle"
    /\ InitStatsIdle /\ InitAsyncIdle /\ InitClassifierIdle /\ InitCategoryIdle /\ InitChartIdle /\ InitTopIdle /\ InitUserServiceIdle /\ InitProductAdminIdle /\ InitTableIdle /\ InitMiniChartIdle /\ InitDashboardIdle

\* the auth context changes: the layout renders again with the new values;
\* React runs the effect of the previous render before it renders again
AuthUpdate(a) ==
    /\ view # "unmounted"
    /\ ~effectPending
    /\ a # auth
    /\ auth' = a
    /\ view' = Render(a)
    /\ effectPending' = TRUE
    /\ UNCHANGED <<route, redirected, logout>>
    /\ UNCHANGED layoutFrame

\* the effect of the last render runs
RunEffect ==
    /\ view # "unmounted"
    /\ effectPending
    /\ effectPending' = FALSE
    /\ redirected' = EffectPush(auth)
    /\ route' = IF EffectPush(auth) = "none" THEN route ELSE EffectPush(auth)
    /\ UNCHANGED <<auth, view, logout>>
    /\ UNCHANGED layoutFrame

\* the Logout button of the rendered content is clicked: signOut() is called
HandleLogout ==
    /\ view = "content"
    /\ logout = "idle"
    /\ logout' = "pending"
    /\ UNCHANGED <<auth, view, effectPending, route, redirected>>
    /\ UNCHANGED layoutFrame

\* signOut() resolves: router.push("/login")
SignOutResolves ==
    /\ logout = "pending"
    /\ logout' = "idle"
    /\ route' = "/login"
    /\ UNCHANGED <<auth, view, effectPending, redirected>>
    /\ UNCHANGED layoutFrame

\* signOut() rejects: the error is logged
SignOutRejects ==
    /\ logout = "pending"
    /\ logout' = "idle"
    /\ UNCHANGED <<auth, view, effectPending, route, redirected>>
    /\ UNCHANGED layoutFrame

\* the pushed route has loaded: the admin page and its layout are gone
Unmount ==
    /\ view # "unmounted"
    /\ route # AdminRoute
    /\ view' = "unmounted"
    /\ effectPending' = FALSE
    /\ UNCHANGED <<auth, route, redirected, logout>>
    /\ UNCHANGED layoutFrame

NextLayout ==
    \/ \E a \in AuthValues : AuthUpdate(a)
    \/ RunEffect
    \/ HandleLogout
    \/ SignOutResolves
    \/ SignOutRejects
    \/ Unmount

SpecLayout == InitLayout /\ [][NextLayout]_vars

\* ------------------------------------------------------------------- C20
Finished == ~auth.loading /\ ~auth.checkingAdminStatus

\* C20: the protected content is rendered only when loading and the admin
\* check have both finished and the user is signed in and an admin; once
\* both have finished and the effect has run, a missing user has been sent to
\* /login and a signed-in non-admin to /access-denied, and in neither case is
\* the content rendered.
C20_AdminOnly ==
    /\ view = "content" => (Finished /\ auth.user # NoUser /\ auth.isAdmin)
    /\ (view # "unmounted" /\ Finished /\ (auth.user = NoUser \/ ~auth.isAdmin)) =>
          /\ view = "null"
          /\ ~effectPending =>
                /\ redirected = IF auth.user = NoUser THEN "/login" ELSE "/access-denied"
                /\ route \in {redirected, "/login"}

\* a signed-in user who is not an admin has been sent to /access-denied
C20_Witness ==
    /\ view = "null"
    /\ Finished /\ auth.user = "alice" /\ ~auth.isAdmin
    /\ ~effectPending
    /\ redirected = "/access-denied" /\ route = "/access-denied"

\* ------------------------------------------------------------- UserService
\* a stored profile: its role field ("undefined" when the document has none)
\* and its createdAt, a logical clock
NoRole == "undefined"
Roles == {"admin", "user"}

\* a profile written before the role field was introduced
LegacyDoc(uid) ==
    [exists |-> TRUE, uid |-> uid, role |-> NoRole, createdAt |-> IF uid = "u1" THEN 1 ELSE 2]

\* a variant that creates administrators
NewUserProfileAsAdmin(uid, at) == [exists |-> TRUE, uid |-> uid, role |-> "admin", createdAt |-> at]

\* createUserProfile's userProfile
NewUserProfile(uid, at) == [exists |-> TRUE, uid |-> uid, role |-> "user", createdAt |-> at]

\* createGoogleUserProfile's userProfile
GoogleUserProfile(uid, at) == [exists |-> TRUE, uid |-> uid, role |-> "user", createdAt |-> at]

\* updateDoc(userRef, {role, ...}): the fields given replace those of the
\* document; a missing document makes the write fail and nothing is stored
CanUpdate(docs, uid) == docs[uid].exists
UpdateDoc(docs, uid, role) ==
    IF CanUpdate(docs, uid) /\ role # NoRole THEN [docs EXCEPT ![uid].role = role] ELSE docs

\* query(usersCollection, orderBy("createdAt", "desc")): the documents, newest first
UsersSnapshot(docs) ==
    LET existing == {u \in Uids : docs[u].exists}
        order == CHOOSE s \in [1..Cardinality(existing) -> existing] :
                     \A i, j \in 1..Cardinality(existing) :
                         i < j => docs[s[i]].createdAt > docs[s[j]].createdAt
    IN  [i \in 1..Cardinality(existing) |-> docs[order[i]]]

\* role || "user"
RoleOrUser(role) == IF role = NoRole THEN "user" ELSE role

getAllUsers(docs) ==
    LET snapshot == UsersSnapshot(docs)
    IN  [i \in DOMAIN snapshot |-> [snapshot[i] EXCEPT !.role = RoleOrUser(@)]]

getUsersWithPagination(docs, limit) ==
    LET snapshot == UsersSnapshot(docs)
    IN  [users |-> SubSeq(snapshot, 1, IF Len(snapshot) < limit THEN Len(snapshot) ELSE limit),
         hasMore |-> Len(snapshot) > limit]

\* userProfile?.role === "admin" || false
isUserAdmin(docs, uid) == docs[uid].exists /\ docs[uid].role = "admin"

\* the users page: its two role counters and its role filter
AdminUsersCount(list) == Cardinality({i \in DOMAIN list : RoleOrUser(list[i].role) = "admin"})
RegularUsersCount(list) == Cardinality({i \in DOMAIN list : RoleOrUser(list[i].role) # "admin"})
RoleFilters == {"all", "admin", "user"}
FilteredUsers(list, roleFilter) ==
    SelectSeq(list, LAMBDA user : roleFilter = "all" \/ RoleOrUser(user.role) = roleFilter)

PageLimits == {1, 50}

\* ------------------------------------------------------ SpecUsers actions
InitUsers ==
    /\ userDocs \in [Uids -> {NoDoc}] \cup {[u \in Uids |-> IF u \in legacy THEN LegacyDoc(u) ELSE NoDoc] :
                                              legacy \in SUBSET Uids}
    /\ userClock = FirstClock
    /\ granted = [u \in Uids |-> FALSE]
    /\ lastWriter = [u \in Uids |-> "none"]
    /\ googleCalls = [c \in GoogleCalls |-> NotCalled]
    /\ usersRead = NothingRead
    /\ InitStatsIdle /\ InitAsyncIdle /\ InitClassifierIdle /\ InitCategoryIdle /\ InitChartIdle /\ InitTopIdle /\ InitLayoutIdle /\ InitProductAdminIdle /\ InitTableIdle /\ InitMiniChartIdle /\ InitDashboardIdle

CanCreate == userClock < FirstClock + MaxUserWrites

\* createUserProfile(user, additionalData): one setDoc
CreateUserProfile(uid) ==
    /\ CanCreate
    /\ userDocs' = [userDocs EXCEPT ![uid] = NewUserProfile(uid, userClock)]
    /\ userClock' = userClock + 1
    /\ lastWriter' = [lastWriter EXCEPT ![uid] = "createUserProfile"]
    /\ UNCHANGED <<granted, googleCalls, usersRead>>
    /\ UNCHANGED userServiceFrame

\* createGoogleUserProfile(user) up to the answer of its getDoc
GoogleGetDoc(c, uid) ==
    /\ googleCalls[c].pc = "idle"
    /\ googleCalls' = [googleCalls EXCEPT ![c] =
            [pc |-> IF userDocs[uid].exists THEN "returned" ELSE "creating", uid |-> uid]]
    /\ UNCHANGED <<userDocs, userClock, granted, lastWriter, usersRead>>
    /\ UNCHANGED userServiceFrame

\* createGoogleUserProfile(user) from the answer of its getDoc on: the setDoc
GoogleSetDoc(c) ==
    /\ googleCalls[c].pc = "creating"
    /\ CanCreate
    /\ userDocs' = [userDocs EXCEPT ![googleCalls[c].uid] =
                        GoogleUserProfile(googleCalls[c].uid, userClock)]
    /\ userClock' = userClock + 1
    /\ lastWriter' = [lastWriter EXCEPT ![googleCalls[c].uid] = "createGoogleUserProfile"]
    /\ googleCalls' = [googleCalls EXCEPT ![c].pc = "returned"]
    /\ UNCHANGED <<granted, usersRead>>
    /\ UNCHANGED userServiceFrame

\* the write of an update operation, with the record of who wrote and of
\* whether the operation granted the admin role
WriteRole(op, uid, role) ==
    /\ userDocs' = UpdateDoc(userDocs, uid, role)
    /\ lastWriter' = IF CanUpdate(userDocs, uid) THEN [lastWriter EXCEPT ![uid] = op] ELSE lastWriter
    /\ granted' = IF role = "admin" THEN [granted EXCEPT ![uid] = TRUE] ELSE granted
    /\ UNCHANGED <<userClock, googleCalls, usersRead>>
    /\ UNCHANGED userServiceFrame

\* updateUser(userId, data): the edit form of the users page always carries a role
UpdateUser(uid, role) == WriteRole("updateUser", uid, role)

\* updateUserProfile(userId, updateData): an undefined role is removed before the write
UpdateUserProfile(uid, role) == WriteRole("updateUserProfile", uid, role)

\* setUserAsAdmin(userId)
SetUserAsAdmin(uid) == WriteRole("setUserAsAdmin", uid, "admin")

GetAllUsers ==
    /\ usersRead' = [op |-> "getAllUsers", users |-> getAllUsers(userDocs)]
    /\ UNCHANGED <<userDocs, userClock, granted, lastWriter, googleCalls>>
    /\ UNCHANGED userServiceFrame

GetUsersWithPagination(limit) ==
    /\ usersRead' = [op |-> "getUsersWithPagination", limit |-> limit,
                     users |-> getUsersWithPagination(userDocs, limit).users,
                     hasMore |-> getUsersWithPagination(userDocs, limit).hasMore]
    /\ UNCHANGED <<userDocs, userClock, granted, lastWriter, googleCalls>>
    /\ UNCHANGED userServiceFrame

IsUserAdmin(uid) ==
    /\ usersRead' = [op |-> "isUserAdmin", uid |-> uid, result |-> isUserAdmin(userDocs, uid)]
    /\ UNCHANGED <<userDocs, userClock, granted, lastWriter, googleCalls>>
    /\ UNCHANGED userServiceFrame

NextUsers ==
    \/ \E uid \in Uids : CreateUserProfile(uid)
    \/ \E c \in GoogleCalls, uid \in Uids : GoogleGetDoc(c, uid)
    \/ \E c \in GoogleCalls : GoogleSetDoc(c)
    \/ \E uid \in Uids, role \in Roles : UpdateUser(uid, role)
    \/ \E uid \in Uids, role \in Roles \cup {NoRole} : UpdateUserProfile(uid, role)
    \/ \E uid \in Uids : SetUserAsAdmin(uid)
    \/ GetAllUsers
    \/ \E limit \in PageLimits : GetUsersWithPagination(limit)
    \/ \E uid \in Uids : IsUserAdmin(uid)

SpecUsers == InitUsers /\ [][NextUsers]_vars

\* ------------------------------------------------------------------- C21
CreationOps == {"createUserProfile", "createGoogleUserProfile"}

\* C21: a profile last written by createUserProfile or createGoogleUserProfile
\* has role "user", and a profile has role "admin" only if setUserAsAdmin,
\* updateUserProfile or updateUser was performed with role admin for its user.
C21_RolesGranted ==
    \A u \in Uids :
        userDocs[u].exists =>
            /\ lastWriter[u] \in CreationOps => userDocs[u].role = "user"
            /\ userDocs[u].role = "admin" => granted[u]

\* a profile created here was made an administrator, and the role was then
\* reset by a new profile creation
C21_Witness ==
    \E u \in Uids :
        /\ userDocs[u].exists /\ userDocs[u].role = "user"
        /\ granted[u] /\ lastWriter[u] \in CreationOps

\* ------------------------------------------------------------------- C22
\* C22: a stored profile without a role field is read as role "user":
\* getAllUsers and getUsersWithPagination return it with role "user",
\* isUserAdmin reports false for it, and the users page counts and filters
\* it as a regular user.
C22_DefaultsToUser ==
    [][usersRead' # usersRead =>
          /\ usersRead'.op \in {"getAllUsers", "getUsersWithPagination"} =>
                \A i \in DOMAIN usersRead'.users :
                    userDocs[usersRead'.users[i].uid].role = NoRole =>
                        usersRead'.users[i].role = "user"
          /\ usersRead'.op = "isUserAdmin" =>
                (userDocs[usersRead'.uid].exists /\ userDocs[usersRead'.uid].role = NoRole
                    => ~usersRead'.result)
          /\ usersRead'.op = "getAllUsers" =>
                LET stored == {u \in Uids : userDocs[u].exists /\ userDocs[u].role = NoRole}
                    shown(f) == {FilteredUsers(usersRead'.users, f)[i].uid :
                                    i \in DOMAIN FilteredUsers(usersRead'.users, f)}
                IN  /\ RegularUsersCount(usersRead'.users) >= Cardinality(stored)
                    /\ stored \subseteq shown("user")
                    /\ stored \cap shown("admin") = {}]_vars

\* ------------------------------------------------------------------- C29
\* C29: createGoogleUserProfile never overwrites an existing profile: a
\* stored role "admin" is never turned back into "user" by its setDoc.
C29_NeverOverwrites ==
    [][\A u \in Uids :
          (/\ userDocs[u].exists /\ userDocs[u].role = "admin"
           /\ userDocs'[u] # userDocs[u]
           /\ lastWriter'[u] = "createGoogleUserProfile")
              => userDocs'[u].role = "admin"]_vars

\* ======================================================================
\* ProductAdminService (addProduct, updateProduct, deleteProduct,
\* uploadProductImages, updateStock) and the dialog of the product
\* management page (ProductManagement.tsx).
\* ======================================================================
Stocks == 0..MaxStock
Availabilities == {"IN STOCK", "OUT OF STOCK", "PREORDER"}
Files == {"a.png", "b.png"}
\* the image files of a call of addProduct: none, one, two
FileSelections == {<<>>, <<"a.png">>, <<"b.png", "a.png">>}
\* what the file input of the dialog hands over: nothing or one file
DialogSelections == {<<>>, <<"a.png">>}
\* result.cdnUrl of an uploaded file
cdnUrl == "a.png" :> "cdn/a.png" @@ "b.png" :> "cdn/b.png"
OldUrl == "cdn/old.png"

\* a product already in the store, in stock or sold out
StoredProduct(stock) ==
    [exists |-> TRUE, stock |-> stock,
     availability |-> IF stock > 0 THEN "IN STOCK" ELSE "OUT OF STOCK",
     image |-> OldUrl, images |-> <<OldUrl>>]

\* const uploadPromises = files.map(...); return await Promise.all(uploadPromises)
UploadedUrlsReversed(files) == [i \in DOMAIN files |-> cdnUrl[files[Len(files) + 1 - i]]]
UploadedUrls(files) == [i \in DOMAIN files |-> cdnUrl[files[i]]]

\* imageUrls[0] || ""
FirstOrEmpty(imageUrls) == IF imageUrls = <<>> THEN "" ELSE imageUrls[1]

\* newProduct = {...productData, image: imageUrls[0] || "", images: imageUrls}
NewProduct(productData, imageUrls) ==
    [exists |-> TRUE, stock |-> productData.stock,
     availability |-> productData.availability,
     image |-> FirstOrEmpty(imageUrls), images |-> imageUrls]

\* updateDoc(productRef, {...productData, updatedAt}) without new image files:
\* the image fields are not part of the update
UpdatedFields(old, productData) ==
    [old EXCEPT !.stock = productData.stock,
                !.availability = productData.availability]

\* if (newImageFiles && newImageFiles.length > 0) { updateData.images =
\* imageUrls; updateData.image = imageUrls[0]; }
UpdatedProduct(old, productData, imageUrls) ==
    IF imageUrls = <<>> THEN UpdatedFields(old, productData)
    ELSE [UpdatedFields(old, productData) EXCEPT !.images = imageUrls,
                                                 !.image = imageUrls[1]]

\* updateDoc(productRef, {stock: newStock, availability: newStock > 0 ? ...})
StockUpdated(old, newStock) ==
    [old EXCEPT !.stock = newStock,
                !.availability = IF newStock > 0 THEN "IN STOCK" ELSE "OUT OF STOCK"]

\* startEdit: availability: product.availability || "IN STOCK",
\* stock: product.stock || 0
FormOf(product) == [availability |-> product.availability, stock |-> product.stock]

\* the productData of a call of addProduct
ServiceForms == [availability : Availabilities, stock : Stocks]

InitProducts ==
    /\ productDocs \in [Pids -> {NoProduct, StoredProduct(0), StoredProduct(MaxStock)}]
    /\ productDocs["p2"].exists => productDocs["p1"].exists
    /\ loadedProducts = productDocs
    /\ isDialogOpen = FALSE
    /\ editingProduct = NotEditing
    /\ formData = EmptyForm
    /\ imageFiles = <<>>
    /\ isSubmitting = FALSE
    /\ productCall = NoProductCall
    /\ productResult = NoProductResult
    /\ selectedInEdit = FALSE
    /\ InitStatsIdle /\ InitAsyncIdle /\ InitClassifierIdle /\ InitCategoryIdle /\ InitChartIdle /\ InitTopIdle /\ InitLayoutIdle /\ InitUserServiceIdle /\ InitTableIdle /\ InitMiniChartIdle /\ InitDashboardIdle

\* resetForm() followed by setIsDialogOpen(true)
StartAdd ==
    /\ ~isDialogOpen
    /\ formData' = EmptyForm
    /\ imageFiles' = <<>>
    /\ editingProduct' = NotEditing
    /\ isDialogOpen' = TRUE
    /\ selectedInEdit' = FALSE
    /\ UNCHANGED <<productDocs, loadedProducts, isSubmitting, productCall, productResult>>
    /\ UNCHANGED productAdminFrame

\* startEdit(product) on a row of the table: imageFiles is left as it is
StartEdit(p) ==
    /\ ~isDialogOpen
    /\ loadedProducts[p].exists
    /\ editingProduct' = p
    /\ formData' = FormOf(loadedProducts[p])
    /\ isDialogOpen' = TRUE
    /\ selectedInEdit' = FALSE
    /\ UNCHANGED <<productDocs, loadedProducts, imageFiles, isSubmitting, productCall, productResult>>
    /\ UNCHANGED productAdminFrame

\* handleImageSelect: setImageFiles(files)
HandleImageSelect(files) ==
    /\ isDialogOpen
    /\ imageFiles' = files
    /\ selectedInEdit' = (editingProduct # NotEditing /\ files # <<>>)
    /\ UNCHANGED <<productDocs, loadedProducts, isDialogOpen, editingProduct, formData, isSubmitting, productCall, productResult>>
    /\ UNCHANGED productAdminFrame

\* the stock field of the form: setFormData({...formData, stock: parseInt(...) || 0})
ChangeStock(stock) ==
    /\ isDialogOpen
    /\ formData' = [formData EXCEPT !.stock = stock]
    /\ UNCHANGED <<productDocs, loadedProducts, isDialogOpen, editingProduct, imageFiles, isSubmitting, productCall, productResult, selectedInEdit>>
    /\ UNCHANGED productAdminFrame

\* the availability select of the form
ChangeAvailability(availability) ==
    /\ isDialogOpen
    /\ formData' = [formData EXCEPT !.availability = availability]
    /\ UNCHANGED <<productDocs, loadedProducts, isDialogOpen, editingProduct, imageFiles, isSubmitting, productCall, productResult, selectedInEdit>>
    /\ UNCHANGED productAdminFrame

\* the Cancel button: onClick={() => setIsDialogOpen(false)}, disabled={isSubmitting}
Cancel ==
    /\ isDialogOpen
    /\ ~isSubmitting
    /\ isDialogOpen' = FALSE
    /\ UNCHANGED <<productDocs, loadedProducts, editingProduct, formData, imageFiles, isSubmitting, productCall, productResult, selectedInEdit>>
    /\ UNCHANGED productAdminFrame

\* a call of updateProduct or addProduct: the images are uploaded first when
\* there are any (addProduct always calls uploadProductImages); selected
\* remembers whether the files were chosen during the edit being submitted
ProductCall(op, caller, id, productData, files, selected) ==
    [pc |-> IF op = "addProduct" \/ files # <<>> THEN "upload" ELSE "write",
     op |-> op, caller |-> caller, id |-> id, data |-> productData,
     files |-> files, urls |-> <<>>, selected |-> selected]

\* handleSubmit up to its first await; adding with no image selected only
\* shows "Please select at least one product image" and changes nothing
HandleSubmit ==
    /\ isDialogOpen
    /\ ~isSubmitting
    /\ productCall.pc = "idle"
    /\ IF editingProduct # NotEditing
       THEN /\ productCall' = ProductCall("updateProduct", "page", editingProduct, formData, imageFiles, selectedInEdit)
            /\ isSubmitting' = TRUE
       ELSE /\ imageFiles # <<>>
            /\ productCall' = ProductCall("addProduct", "page", NotEditing, formData, imageFiles, FALSE)
            /\ isSubmitting' = TRUE
    /\ UNCHANGED <<productDocs, loadedProducts, isDialogOpen, editingProduct, formData, imageFiles, productResult, selectedInEdit>>
    /\ UNCHANGED productAdminFrame

\* ProductAdminService.addProduct(productData, imageFiles) called on its own
AddProduct(productData, files) ==
    /\ productCall.pc = "idle"
    /\ productCall' = ProductCall("addProduct", "service", NotEditing, productData, files, FALSE)
    /\ UNCHANGED <<productDocs, loadedProducts, isDialogOpen, editingProduct, formData, imageFiles, isSubmitting, productResult, selectedInEdit>>
    /\ UNCHANGED productAdminFrame

FailureMessage == [addProduct |-> "Failed to add product", updateProduct |-> "Failed to update product"]

\* the call rejects; handleSubmit's catch and finally run when the page called
Rejected ==
    /\ productCall' = NoProductCall
    /\ productResult' = [status |-> "rejected", op |-> productCall.op,
                         message |-> FailureMessage[productCall.op]]
    /\ isSubmitting' = IF productCall.caller = "page" THEN FALSE ELSE isSubmitting
    /\ UNCHANGED <<loadedProducts, isDialogOpen, editingProduct, formData, imageFiles, selectedInEdit>>

\* the call resolves; the page then runs resetForm(), setIsDialogOpen(false)
\* and loadProducts()
Resolved(id, docs) ==
    /\ productCall' = NoProductCall
    /\ productResult' = [status |-> "resolved", op |-> productCall.op, id |-> id]
    /\ IF productCall.caller = "page"
       THEN /\ formData' = EmptyForm
            /\ imageFiles' = <<>>
            /\ editingProduct' = NotEditing
            /\ isDialogOpen' = FALSE
            /\ loadedProducts' = docs
            /\ isSubmitting' = FALSE
            /\ selectedInEdit' = FALSE
       ELSE UNCHANGED <<formData, imageFiles, editingProduct, isDialogOpen, loadedProducts, isSubmitting, selectedInEdit>>

\* uploadProductImages: every file is uploaded, Promise.all rejects when one
\* upload fails and the caller's catch turns that into its own error
UploadProductImages(failed) ==
    /\ productCall.pc = "upload"
    /\ IF failed = {}
       THEN /\ productCall' = [productCall EXCEPT !.pc = "write", !.urls = UploadedUrls(productCall.files)]
            /\ UNCHANGED <<loadedProducts, isDialogOpen, editingProduct, formData, imageFiles, isSubmitting, productResult, selectedInEdit>>
       ELSE Rejected
    /\ UNCHANGED productDocs
    /\ UNCHANGED productAdminFrame

\* addDoc(collection(db, "products"), newProduct) with a fresh document id, or
\* updateDoc(productRef, updateData), which fails when the document is gone
WriteProduct(ok, fresh) ==
    /\ productCall.pc = "write"
    /\ IF productCall.op = "addProduct"
       THEN /\ ~productDocs[fresh].exists
            /\ IF ok
               THEN /\ productDocs' = [productDocs EXCEPT ![fresh] = NewProduct(productCall.data, productCall.urls)]
                    /\ Resolved(fresh, productDocs')
               ELSE UNCHANGED productDocs /\ Rejected
       ELSE IF ok /\ productDocs[productCall.id].exists
            THEN /\ productDocs' = [productDocs EXCEPT ![productCall.id] =
                                       UpdatedProduct(@, productCall.data, productCall.urls)]
                 /\ Resolved(productCall.id, productDocs')
            ELSE UNCHANGED productDocs /\ Rejected
    /\ UNCHANGED productAdminFrame

\* handleStockUpdate: updateStock(productId, newStock), then loadProducts()
HandleStockUpdate(p, newStock) ==
    /\ ~isDialogOpen
    /\ loadedProducts[p].exists
    /\ IF productDocs[p].exists
       THEN /\ productDocs' = [productDocs EXCEPT ![p] = StockUpdated(@, newStock)]
            /\ loadedProducts' = productDocs'
       ELSE UNCHANGED <<productDocs, loadedProducts>>
    /\ UNCHANGED <<isDialogOpen, editingProduct, formData, imageFiles, isSubmitting, productCall, productResult, selectedInEdit>>
    /\ UNCHANGED productAdminFrame

\* handleDelete: deleteProduct(product.id, product.images), then loadProducts()
HandleDelete(p) ==
    /\ ~isDialogOpen
    /\ loadedProducts[p].exists
    /\ productDocs' = [productDocs EXCEPT ![p] = NoProduct]
    /\ loadedProducts' = productDocs'
    /\ UNCHANGED <<isDialogOpen, editingProduct, formData, imageFiles, isSubmitting, productCall, productResult, selectedInEdit>>
    /\ UNCHANGED productAdminFrame

NextProducts ==
    \/ StartAdd
    \/ \E p \in Pids : StartEdit(p)
    \/ \E files \in DialogSelections : HandleImageSelect(files)
    \/ \E stock \in Stocks : ChangeStock(stock)
    \/ \E availability \in Availabilities : ChangeAvailability(availability)
    \/ Cancel
    \/ HandleSubmit
    \/ \E failed \in SUBSET Files : UploadProductImages(failed \cap {productCall.files[i] : i \in DOMAIN productCall.files})
    \/ \E ok \in BOOLEAN, fresh \in Pids : WriteProduct(ok, fresh)
    \/ \E p \in Pids, newStock \in Stocks : HandleStockUpdate(p, newStock)
    \/ \E p \in Pids : HandleDelete(p)

SpecProducts == InitProducts /\ [][NextProducts]_vars

\* addProduct on its own, for every productData and list of image files
NextAddProduct ==
    \/ \E productData \in ServiceForms, files \in FileSelections : AddProduct(productData, files)
    \/ \E failed \in SUBSET Files : UploadProductImages(failed \cap {productCall.files[i] : i \in DOMAIN productCall.files})
    \/ \E ok \in BOOLEAN, fresh \in Pids : WriteProduct(ok, fresh)

SpecAddProduct == InitProducts /\ [][NextAddProduct]_vars

\* ------------------------------------------------------------------- C30
\* the documents that a step adds to the products collection
CreatedProducts == {p \in Pids : ~productDocs[p].exists /\ productDocs'[p].exists}

\* C30: addProduct uploads every image file before it writes to the store:
\* the store changes only after all uploads succeeded; a call that rejects
\* has created no document and rejects with "Failed to add product"; a call
\* that resolves has created exactly one document, whose images are the
\* uploaded URLs in file order and whose image is the first of them, or the
\* empty string when there are none.
C30_UploadsThenWrites ==
    [][(productCall.pc # "idle" /\ productCall.op = "addProduct") =>
          LET files == productCall.files
              urls == [i \in 1..Len(files) |-> cdnUrl[files[i]]]
          IN  /\ productDocs' # productDocs =>
                    productCall.pc = "write" /\ productCall.urls = urls
              /\ (productCall'.pc = "idle" /\ productResult'.status = "rejected") =>
                    /\ productDocs' = productDocs
                    /\ productResult'.message = "Failed to add product"
              /\ (productCall'.pc = "idle" /\ productResult'.status = "resolved") =>
                    /\ CreatedProducts = {productResult'.id}
                    /\ \A p \in Pids \ CreatedProducts : productDocs'[p] = productDocs[p]
                    /\ productDocs'[productResult'.id].images = urls
                    /\ productDocs'[productResult'.id].image =
                          IF Len(files) = 0 THEN "" ELSE cdnUrl[files[1]]]_vars

\* addProduct resolved for two image files
C30_Witness ==
    /\ productResult.status = "resolved"
    /\ productResult.op = "addProduct"
    /\ Len(productDocs[productResult.id].images) = 2
    /\ productCall.pc = "idle"

\* ------------------------------------------------------------------- C23
\* C23: after any sequence of addProduct, updateProduct and updateStock
\* operations issued through the product management page, every product's
\* availability is "IN STOCK" exactly when its stock is greater than 0 and
\* "OUT OF STOCK" otherwise.
C23_AvailabilityFromStock ==
    \A p \in Pids :
        productDocs[p].exists =>
            productDocs[p].availability =
                IF productDocs[p].stock > 0 THEN "IN STOCK" ELSE "OUT OF STOCK"

\* ------------------------------------------------------------------- C28
\* C28: submitting an edit of a product for which no image files were
\* selected during that edit leaves the product's image and images unchanged,
\* whatever dialog actions (startAdd, image selection, Cancel, startEdit) came
\* before: updateProduct receives image files only if they were selected
\* while that product was being edited.
C28_ImagesKept ==
    [][(/\ productCall.pc # "idle"
        /\ productCall.op = "updateProduct"
        /\ ~productCall.selected)
           => /\ productCall.files = <<>>
              /\ productDocs'[productCall.id].exists =>
                    /\ productDocs'[productCall.id].image = productDocs[productCall.id].image
                    /\ productDocs'[productCall.id].images = productDocs[productCall.id].images]_vars

\* ======================================================================
\* The paginated tables of the orders page (app/orders/page.tsx), the users
\* page (app/users/page.tsx) and the products page (ProductManagement.tsx):
\* search term, status / role / category filter, current page, and the
\* reloads that follow an edit, a stock update or a deletion.
\* ======================================================================
PageKinds == {"orders", "users", "products"}
\* const [itemsPerPage] = useState(10)
ItemsPerPage == 10

\* the values of the status filter, the role filter and the category select
FilterValues ==
    [orders |-> {"all", "pending", "completed"},
     users |-> {"all", "user", "admin"},
     products |-> {"all", "Running", "Sneakers"}]
AllFilters == UNION {FilterValues[k] : k \in PageKinds}
FirstTag == [orders |-> "pending", users |-> "user", products |-> "Running"]
SecondTag == [orders |-> "completed", users |-> "admin", products |-> "Sneakers"]

\* the text a row is searched by, and what is typed into the search field
RowNames == {<<"A", "b">>, <<"c">>}
SearchTerms == {<<>>, <<"a">>, <<"C">>}

\* n rows in query order; with the pattern "last" the last row differs from
\* the others in its text and in its status / role / category
RowPatterns == {"same", "last"}
PatternRows(kind, n, pattern) ==
    [i \in 1..n |->
        IF pattern = "last" /\ i = n
        THEN [id |-> i, name |-> <<"c">>, tag |-> SecondTag[kind]]
        ELSE [id |-> i, name |-> <<"A", "b">>, tag |-> FirstTag[kind]]]

\* orderBy("name") of getProducts
OrderByName(rows) ==
    SelectSeq(rows, LAMBDA r : r.name = <<"A", "b">>) \o SelectSeq(rows, LAMBDA r : r.name # <<"A", "b">>)

\* what the page's fetch returns: getProducts(selectedCategory) filters by
\* category in the query and orders by name; getRecentOrders and getAllUsers
\* return the collection
FetchRows(kind, stored, filter) ==
    IF kind = "products"
    THEN OrderByName(SelectSeq(stored, LAMBDA r : filter = "all" \/ r.tag = filter))
    ELSE stored

\* text.toLowerCase().includes(searchTerm.toLowerCase())
MatchesSearch(row, term) == StringIncludes(toLowerCase(row.name), toLowerCase(term))

\* filteredOrders / filteredUsers / filteredProducts: the products page
\* filters the loaded list by the search term only
FilteredRows(kind, rows, term, filter) ==
    IF kind = "products"
    THEN SelectSeq(rows, LAMBDA r : MatchesSearch(r, term))
    ELSE SelectSeq(rows, LAMBDA r : MatchesSearch(r, term) /\ (filter = "all" \/ r.tag = filter))

\* Math.ceil(filtered.length / itemsPerPage)
TotalPages(filtered) == (Len(filtered) + ItemsPerPage - 1) \div ItemsPerPage

\* filtered.slice(startIndex, endIndex)
PaginatedRows(filtered, page) ==
    LET startIndex == (page - 1) * ItemsPerPage
        endIndex == startIndex + ItemsPerPage
        last == IF endIndex < Len(filtered) THEN endIndex ELSE Len(filtered)
    IN  SubSeq(filtered, startIndex + 1, last)

filteredRows == FilteredRows(pageKind, tableRows, searchTerm, selectedFilter)
totalPages == TotalPages(filteredRows)
paginatedRows == PaginatedRows(filteredRows, currentPage)
DisplayedIds == {paginatedRows[i].id : i \in DOMAIN paginatedRows}

\* the page is mounted and its first fetch is in flight
InitTable ==
    /\ pageKind \in PageKinds
    /\ \E n \in {0, 1, ItemsPerPage, MaxRows}, pattern \in RowPatterns :
          storedRows = PatternRows(pageKind, n, pattern)
    /\ tableRows = <<>>
    /\ tableLoading = TRUE
    /\ searchTerm = <<>>
    /\ selectedFilter = "all"
    /\ currentPage = 1
    /\ resetPending = FALSE
    /\ loadPending = FALSE
    /\ tableWrites = 0
    /\ lastReset = 0
    /\ InitStatsIdle /\ InitAsyncIdle /\ InitClassifierIdle /\ InitCategoryIdle /\ InitChartIdle /\ InitTopIdle /\ InitLayoutIdle /\ InitUserServiceIdle /\ InitProductAdminIdle /\ InitMiniChartIdle /\ InitDashboardIdle

\* the orders and users pages render only a spinner while loading; the
\* products page keeps its search field and category select
FiltersShown == pageKind = "products" \/ ~tableLoading
TableShown == ~tableLoading

\* onChange of the search field: setSearchTerm(e.target.value); the effect
\* with [searchTerm, filter] as dependencies is then due
SetSearchTerm(term) ==
    /\ ~resetPending
    /\ FiltersShown
    /\ term # searchTerm
    /\ searchTerm' = term
    /\ resetPending' = TRUE
    /\ UNCHANGED <<pageKind, storedRows, tableRows, tableLoading, selectedFilter, currentPage, loadPending, tableWrites, lastReset>>
    /\ UNCHANGED tableFrame

\* onValueChange of the status / role / category select; on the products
\* page loadProducts depends on selectedCategory, so its effect is due too
SetFilter(filter) ==
    /\ ~resetPending
    /\ FiltersShown
    /\ filter \in FilterValues[pageKind]
    /\ filter # selectedFilter
    /\ selectedFilter' = filter
    /\ resetPending' = TRUE
    /\ loadPending' = (pageKind = "products")
    /\ UNCHANGED <<pageKind, storedRows, tableRows, tableLoading, searchTerm, currentPage, tableWrites, lastReset>>
    /\ UNCHANGED tableFrame

\* the effects of the render that follows the change, which React runs before
\* it handles another event: loadProducts() starts when it is due
\* (setLoading(true)), then setCurrentPage(1)
RunEffectsKeepPage ==
    /\ resetPending
    /\ resetPending' = FALSE
    /\ loadPending' = FALSE
    /\ tableLoading' = (tableLoading \/ loadPending)
    /\ lastReset' = currentPage
    /\ UNCHANGED <<pageKind, storedRows, tableRows, searchTerm, selectedFilter, currentPage, tableWrites>>
    /\ UNCHANGED tableFrame
RunEffects ==
    /\ resetPending
    /\ resetPending' = FALSE
    /\ loadPending' = FALSE
    /\ tableLoading' = (tableLoading \/ loadPending)
    /\ currentPage' = 1
    /\ lastReset' = currentPage
    /\ UNCHANGED <<pageKind, storedRows, tableRows, searchTerm, selectedFilter, tableWrites>>
    /\ UNCHANGED tableFrame

\* the fetch resolves: setOrders / setUsers / setProducts, setLoading(false)
LoadDone ==
    /\ ~resetPending
    /\ tableLoading
    /\ tableRows' = FetchRows(pageKind, storedRows, selectedFilter)
    /\ tableLoading' = FALSE
    /\ UNCHANGED <<pageKind, storedRows, searchTerm, selectedFilter, currentPage, resetPending, loadPending, tableWrites, lastReset>>
    /\ UNCHANGED tableFrame

\* the pagination controls are rendered when filtered.length > itemsPerPage
ControlsShown == ~resetPending /\ TableShown /\ Len(filteredRows) > ItemsPerPage

\* handlePageChange(page)
HandlePageChange(page) ==
    /\ currentPage' = page
    /\ UNCHANGED <<pageKind, storedRows, tableRows, tableLoading, searchTerm, selectedFilter, resetPending, loadPending, tableWrites, lastReset>>
    /\ UNCHANGED tableFrame

\* Previous: disabled={currentPage === 1}
ClickPrevious ==
    /\ ControlsShown
    /\ currentPage # 1
    /\ HandlePageChange(currentPage - 1)

\* Next: disabled={currentPage === totalPages}
ClickNext ==
    /\ ControlsShown
    /\ currentPage # totalPages
    /\ HandlePageChange(currentPage + 1)

\* one of the buttons 1..totalPages
ClickPage(page) ==
    /\ ControlsShown
    /\ page \in 1..totalPages
    /\ page # currentPage
    /\ HandlePageChange(page)

CanWrite(id) ==
    /\ ~resetPending
    /\ TableShown
    /\ tableWrites < MaxTableWrites
    /\ id \in DisplayedIds

\* the reload that follows a write: loadProducts() / fetchUsers()
Reload(rows) ==
    /\ storedRows' = rows
    /\ tableLoading' = TRUE
    /\ tableWrites' = tableWrites + 1
    /\ UNCHANGED <<pageKind, tableRows, searchTerm, selectedFilter, currentPage, resetPending, loadPending, lastReset>>
    /\ UNCHANGED tableFrame

\* products page: handleDelete of a displayed product, then loadProducts()
DeleteRow(id) ==
    /\ pageKind = "products"
    /\ CanWrite(id)
    /\ Reload(SelectSeq(storedRows, LAMBDA r : r.id # id))

\* products page: handleStockUpdate of a displayed product, then loadProducts()
StockUpdateRow(id) ==
    /\ pageKind = "products"
    /\ CanWrite(id)
    /\ Reload(storedRows)

\* the edit dialog of the users page (updateUser, then fetchUsers) and of the
\* products page (updateProduct, then loadProducts)
SubmitEdit(id, name, tag) ==
    /\ pageKind \in {"users", "products"}
    /\ tag \in FilterValues[pageKind]
    /\ CanWrite(id)
    /\ Reload([i \in DOMAIN storedRows |->
                  IF storedRows[i].id = id
                  THEN [id |-> id, name |-> name, tag |-> tag]
                  ELSE storedRows[i]])

NextTable ==
    \/ \E term \in SearchTerms : SetSearchTerm(term)
    \/ \E filter \in AllFilters : SetFilter(filter)
    \/ RunEffects
    \/ LoadDone
    \/ ClickPrevious
    \/ ClickNext
    \/ \E page \in 1..MaxRows : ClickPage(page)
    \/ \E id \in 1..MaxRows : DeleteRow(id)
    \/ \E id \in 1..MaxRows : StockUpdateRow(id)
    \/ \E id \in 1..MaxRows, name \in RowNames, tag \in AllFilters \ {"all"} : SubmitEdit(id, name, tag)

SpecTable == InitTable /\ [][NextTable]_vars

\* React runs the effects of a committed render
FairSpecTable == SpecTable /\ WF_vars(RunEffects)

\* ------------------------------------------------------------------- C27
\* C27: on the orders, users and products tables currentPage stays within
\* 1..max(1, totalPages) after any sequence of search / filter changes,
\* page-button clicks and reloads that follow an edit, a stock update or a
\* deletion, and a non-empty filtered list is never displayed as an empty
\* page. (Stated for the states in which the table is displayed: no fetch
\* in flight and no effect due.)
C27_PageInRange ==
    (~tableLoading /\ ~resetPending) =>
        /\ currentPage \in 1..(IF totalPages > 1 THEN totalPages ELSE 1)
        /\ filteredRows # <<>> => paginatedRows # <<>>

\* ------------------------------------------------------------------- C24
\* C24: on the orders, users and products tables every change of the search
\* term or of the status / role / category filter resets the current page to
\* 1: the change makes the reset due, no user action (and no other step)
\* comes between the change and the reset, the reset leaves the page at 1
\* whatever it was before, and a reset that is due does happen.
C24_ResetsPage ==
    /\ [][(searchTerm' # searchTerm \/ selectedFilter' # selectedFilter) => resetPending']_vars
    /\ [][resetPending =>
             /\ currentPage' = 1
             /\ ~resetPending'
             /\ <<searchTerm', selectedFilter', tableRows', storedRows'>> =
                    <<searchTerm, selectedFilter, tableRows, storedRows>>]_vars
    /\ (resetPending ~> (currentPage = 1 /\ ~resetPending))

\* a change made on page 2 has been processed
C24_Witness ==
    /\ lastReset = 2
    /\ currentPage = 1
    /\ ~resetPending

\* ======================================================================
\* MiniChart (components/MiniChart.tsx): period buttons, fetchChartData and
\* the requests of getChartData that are in flight.
\* ======================================================================
ChartPeriods == {"day", "month"}
MonthsDisplayed == 6
DaysDisplayed == 7

\* what getChartData(period) resolves to: the points of that period, oldest first
ChartResult(p) == [i \in 1..PointsReturned |-> [date |-> <<p, i>>]]

\* period === "month" ? data.slice(-6) : data.slice(-7), with the period of
\* the render that made the request
DisplayData(requested, data) ==
    SliceLast(data, IF requested = "month" THEN MonthsDisplayed ELSE DaysDisplayed)

\* the component is mounted; the effect that calls fetchChartData is due
InitMiniChart ==
    /\ chartPeriod = "month"
    /\ miniChartData = <<>>
    /\ miniLoading = TRUE
    /\ chartRequests = {}
    /\ fetchPending = TRUE
    /\ requestsMade = 0
    /\ InitStatsIdle /\ InitAsyncIdle /\ InitClassifierIdle /\ InitCategoryIdle /\ InitChartIdle /\ InitTopIdle /\ InitLayoutIdle /\ InitUserServiceIdle /\ InitProductAdminIdle /\ InitTableIdle /\ InitDashboardIdle

\* onClick={() => setPeriod(p)}: the buttons of the loading view are never
\* disabled, those of the chart view are disabled while loading
SetPeriod(p) ==
    /\ ~fetchPending
    /\ p # chartPeriod
    /\ requestsMade < MaxRequests
    /\ chartPeriod' = p
    /\ fetchPending' = TRUE
    /\ UNCHANGED <<miniChartData, miniLoading, chartRequests, requestsMade>>
    /\ UNCHANGED miniChartFrame

\* useEffect(() => { fetchChartData(); }, [fetchChartData]) up to the await:
\* setLoading(true) and the request for the period of this render
FetchChartData ==
    /\ fetchPending
    /\ fetchPending' = FALSE
    /\ miniLoading' = TRUE
    /\ requestsMade' = requestsMade + 1
    /\ chartRequests' = chartRequests \cup {[id |-> requestsMade + 1, period |-> chartPeriod]}
    /\ UNCHANGED <<chartPeriod, miniChartData>>
    /\ UNCHANGED miniChartFrame

\* a request resolves: setChartData(displayData), then setLoading(false)
RequestResolves(r) ==
    /\ ~fetchPending
    /\ r \in chartRequests
    /\ chartRequests' = chartRequests \ {r}
    /\ miniChartData' = DisplayData(r.period, ChartResult(r.period))
    /\ miniLoading' = FALSE
    /\ UNCHANGED <<chartPeriod, fetchPending, requestsMade>>
    /\ UNCHANGED miniChartFrame

\* a request rejects: the catch logs, finally setLoading(false)
RequestRejects(r) ==
    /\ ~fetchPending
    /\ r \in chartRequests
    /\ chartRequests' = chartRequests \ {r}
    /\ miniLoading' = FALSE
    /\ UNCHANGED <<chartPeriod, miniChartData, fetchPending, requestsMade>>
    /\ UNCHANGED miniChartFrame

RequestIds == [id : 1..MaxRequests, period : ChartPeriods]

NextMiniChart ==
    \/ \E p \in ChartPeriods : SetPeriod(p)
    \/ FetchChartData
    \/ \E r \in RequestIds : RequestResolves(r)
    \/ \E r \in RequestIds : RequestRejects(r)

SpecMiniChart == InitMiniChart /\ [][NextMiniChart]_vars

\* ------------------------------------------------------------------- C25
\* C25: when the period changes while an earlier getChartData request is in
\* flight, the superseded request's result is discarded: under every
\* interleaving of period clicks and request completions, once loading is
\* false the displayed chartData is the result of the request made for the
\* currently selected period.
C25_ShowsSelectedPeriod ==
    (~miniLoading /\ ~fetchPending /\ miniChartData # <<>>) =>
        miniChartData = SliceLast(ChartResult(chartPeriod),
                                  IF chartPeriod = "month" THEN MonthsDisplayed ELSE DaysDisplayed)

\* ======================================================================
\* The dashboard page Home (unnamed/part_000): fetchDashboardData with its
\* three concurrent aggregation calls, and renderDashboard.
\* ======================================================================
DashboardCalls == {"getDashboardStats", "getRecentOrders", "getTopProducts"}

\* what a call of the attempt resolves to
ValueOf(a, f) == [fetched |-> TRUE, attempt |-> a, fn |-> f]

\* what an aggregation call can reject with: the re-surfaced permission
\* error, a store error passed through, the timed-out auth wait (which
\* getTopProducts swallows)
RejectionsOf(f) ==
    {NewError(DeniedMessage(f)), [code |-> "unavailable", message |-> UnavailableMessage]}
        \cup (IF SwallowsGateFailure(f) THEN {} ELSE {NewError(AuthTimeoutMessage)})
AllRejections == UNION {RejectionsOf(f) : f \in DashboardCalls}

\* the catch block: setError(errorMessage), then the text by what the message includes
DashboardErrorCleared(message) == NullError
DashboardError(message) ==
    [null |-> FALSE,
     text |-> IF Includes(message, "Firestore permissions denied")
              THEN <<"Firebase Security Rules Issue: ">> \o message
              ELSE IF Includes(message, "not authenticated")
                   THEN <<"Please sign in to access the admin dashboard">>
                   ELSE <<"Warning: ">> \o message]

\* renderDashboard: the error with Try Again, else the spinner, else the data
renderDashboard ==
    IF ~homeError.null THEN "error"
    ELSE IF isLoadingData THEN "loading" ELSE "dashboard"

StartedAttempts == {a \in AttemptIds : attempts[a].pc # "idle"}

InitDashboard ==
    /\ homeStats = NoValue
    /\ recentOrders = NoValue
    /\ topProducts = NoValue
    /\ isLoadingData = TRUE
    /\ homeError = NullError
    /\ attempts = [a \in AttemptIds |-> NoAttempt]
    /\ InitStatsIdle /\ InitAsyncIdle /\ InitClassifierIdle /\ InitCategoryIdle /\ InitChartIdle /\ InitTopIdle /\ InitLayoutIdle /\ InitUserServiceIdle /\ InitProductAdminIdle /\ InitTableIdle /\ InitMiniChartIdle

\* fetchDashboardData up to its await, called by the mount effect or by Try
\* Again (shown while error is set): setIsLoadingData(true) and the three calls
FetchDashboardData(a) ==
    /\ attempts[a].pc = "idle"
    /\ a = Cardinality(StartedAttempts) + 1
    /\ StartedAttempts = {} \/ renderDashboard = "error"
    /\ isLoadingData' = TRUE
    /\ attempts' = [attempts EXCEPT ![a] =
                       [pc |-> "waiting", outcome |-> "none",
                        calls |-> [f \in DashboardCalls |-> "pending"]]]
    /\ UNCHANGED <<homeStats, recentOrders, topProducts, homeError>>
    /\ UNCHANGED dashboardFrame

WithCall(a, f, how) == [attempts[a] EXCEPT !.calls[f] = how]

\* a call resolves; when it is the last of the three, Promise.all resolves
\* and the try block goes on: setStats, setRecentOrders, setTopProducts,
\* setError(null), and finally setIsLoadingData(false)
CallResolves(a, f) ==
    /\ attempts[a].pc # "idle"
    /\ attempts[a].calls[f] = "pending"
    /\ IF attempts[a].pc = "waiting" /\ \A g \in DashboardCalls \ {f} : attempts[a].calls[g] = "resolved"
       THEN /\ attempts' = [attempts EXCEPT ![a] = [WithCall(a, f, "resolved") EXCEPT !.pc = "done", !.outcome = "success"]]
            /\ homeStats' = ValueOf(a, "getDashboardStats")
            /\ recentOrders' = ValueOf(a, "getRecentOrders")
            /\ topProducts' = ValueOf(a, "getTopProducts")
            /\ homeError' = NullError
            /\ isLoadingData' = FALSE
       ELSE /\ attempts' = [attempts EXCEPT ![a] = WithCall(a, f, "resolved")]
            /\ UNCHANGED <<homeStats, recentOrders, topProducts, homeError, isLoadingData>>
    /\ UNCHANGED dashboardFrame

\* a call rejects; the first rejection rejects Promise.all and the catch
\* block runs: setError(...), and finally setIsLoadingData(false); the
\* other calls go on and their results are dropped
CallRejects(a, f, e) ==
    /\ attempts[a].pc # "idle"
    /\ attempts[a].calls[f] = "pending"
    /\ e \in RejectionsOf(f)
    /\ IF attempts[a].pc = "waiting"
       THEN /\ attempts' = [attempts EXCEPT ![a] = [WithCall(a, f, "rejected") EXCEPT !.pc = "done", !.outcome = "failure"]]
            /\ homeError' = DashboardError(e.message)
            /\ isLoadingData' = FALSE
       ELSE /\ attempts' = [attempts EXCEPT ![a] = WithCall(a, f, "rejected")]
            /\ UNCHANGED <<homeError, isLoadingData>>
    /\ UNCHANGED <<homeStats, recentOrders, topProducts>>
    /\ UNCHANGED dashboardFrame

CallSettles(a, f) == CallResolves(a, f) \/ \E e \in AllRejections : CallRejects(a, f, e)

NextDashboard ==
    \/ \E a \in AttemptIds : FetchDashboardData(a)
    \/ \E a \in AttemptIds, f \in DashboardCalls : CallResolves(a, f)
    \/ \E a \in AttemptIds, f \in DashboardCalls, e \in AllRejections : CallRejects(a, f, e)

SpecDashboard == InitDashboard /\ [][NextDashboard]_vars

\* every aggregation call settles: the auth wait has its timeout and a read
\* of the store resolves or fails (the calls are finitely many, so fairness
\* of their settling as a whole settles each of them)
FairSpecDashboard ==
    /\ SpecDashboard
    /\ WF_vars(\E a \in AttemptIds, f \in DashboardCalls : CallSettles(a, f))

\* ------------------------------------------------------------------- C26
\* the attempt whose try block or catch block runs in this step
Ends(a) == attempts[a].pc = "waiting" /\ attempts'[a].pc = "done"

\* C26: fetchDashboardData always ends, and ends with isLoadingData false;
\* if one of its three calls fails, error becomes non-null, stats,
\* recentOrders and topProducts are not modified by that attempt and the
\* page shows the error with Try Again instead of data; a later retry in
\* which all three calls succeed sets the three values and clears error.
C26_FetchEnds ==
    /\ [][\A a \in AttemptIds :
            /\ Ends(a) => ~isLoadingData'
            /\ (attempts[a].pc = "waiting" /\ \E f \in DashboardCalls : attempts'[a].calls[f] = "rejected") =>
                  /\ Ends(a)
                  /\ ~homeError'.null
                  /\ <<homeStats', recentOrders', topProducts'>> = <<homeStats, recentOrders, topProducts>>
                  /\ renderDashboard' = "error"
            /\ (Ends(a) /\ \A f \in DashboardCalls : attempts'[a].calls[f] = "resolved") =>
                  /\ homeStats' = ValueOf(a, "getDashboardStats")
                  /\ recentOrders' = ValueOf(a, "getRecentOrders")
                  /\ topProducts' = ValueOf(a, "getTopProducts")
                  /\ homeError'.null]_vars
    /\ \A a \in AttemptIds : (attempts[a].pc = "waiting") ~> (attempts[a].pc = "done")

\* the first attempt failed and the retry succeeded
C26_Witness ==
    /\ attempts[1].pc = "done" /\ attempts[1].outcome = "failure"
    /\ attempts[2].pc = "done" /\ attempts[2].outcome = "success"
    /\ homeError.null
    /\ homeStats = ValueOf(2, "getDashboardStats")
    /\ ~isLoadingData

=============================================================================
